---- MODULE Spec2Model ----
(***************************************************************************)
(* A model of mcpx, a multiplexing proxy for MCP servers.                  *)
(*                                                                         *)
(*   Part I    ConnectionPool (src/mcpx/pool.py) with its users: callers   *)
(*             inside "async with pool.acquire()", a task running          *)
(*             pool.close(), and the health checker's probe, which gets    *)
(*             its client through                                          *)
(*             ServerManager._get_client_for_health_check.                 *)
(*             Specification: SpecPool.                                    *)
(*   Part II   HealthStatus and HealthChecker (src/mcpx/health.py).        *)
(*             Specification: SpecHealth.                                  *)
(*   Part III  ServerManager (src/mcpx/server.py) and the dashboard's      *)
(*             server toggle (src/mcpx/web/api.py), one operation at a     *)
(*             time.  Specification: SpecMgr.                              *)
(*                                                                         *)
(* The program runs on one asyncio event loop: a task runs without         *)
(* interruption until it suspends.  Every action below is the code between *)
(* two suspension points.  "await lock.acquire()" on a free asyncio.Lock,  *)
(* "await queue.get()" on a non-empty asyncio.Queue and "await             *)
(* queue.put()" on an unbounded one do not suspend.                        *)
(***************************************************************************)
EXTENDS Integers, Sequences, FiniteSets, TLC

\* ------------------------------------------------------------------ bounds

\* Number of concurrent tasks that use the pool.
NumTasks == 3

\* The pool's capacity, a constructor parameter (pool.py:28, default 10; the
\* manager passes 10).  The model instantiates the pool with a small one.
max_size == 2

\* Clients the factory may construct in one run of the model.
MaxClients == 4

\* consecutive_failures is counted up to this value in the model.
MaxFailures == 2

Tasks == 1..NumTasks

\* --------------------------------------------------------------- variables

VARIABLES
    available,      \* ConnectionPool._available: FIFO queue of clients
    in_use,         \* ConnectionPool._in_use: set of clients
    closed,         \* ConnectionPool._closed
    lock,           \* ConnectionPool._lock: the task holding it, 0 if free
    lockWaiters,    \* tasks suspended in lock.acquire(), in arrival order
    nclients,       \* clients constructed by the factory so far
    closedClients,  \* clients on which close() has completed
    closeTodo,      \* close(): in-use clients still to be closed
    task,           \* per task: operation, position, client, how it ended
    servers,        \* HealthStatus.servers: name -> ServerHealth
    totals,         \* HealthStatus.total_healthy / total_unhealthy / total_unknown
    running,        \* HealthChecker._running
    enabled,        \* ProxyConfig.mcpServers[name].enabled
    pools,          \* ServerManager._pools: the names that have a pool
    tools,          \* ServerManager._tools: entries keyed "{server}:{tool}"
    resources,      \* ServerManager._resources: entries keyed "{server}:{uri}"
    server_infos,   \* ServerManager._server_infos: the names that have a record
    initialized,    \* ServerManager._initialized
    lastOp,         \* the manager operation that ran last: an initialize with
                    \* the backends whose connection succeeded, a connect of
                    \* a backend that had left no trace, the disconnect that
                    \* follows such a connect, or another
    disabled_tools, \* ProxyConfig.disabled_tools: list of "{server}.{tool}"
    last,           \* the invoke or read request handled last and its outcome
    loop_task,      \* HealthChecker._task: the loop task it refers to, 0 if None
    loops,          \* the loop tasks created so far and where each one is
    probes,         \* the check_server calls in flight: who started each, for
                    \* which backend
    startPc,        \* a caller of start(): idle, or awaiting its initial check
    stopPc,         \* a caller of stop(): idle, or awaiting the cancelled task
    awaited,        \* the task that caller of stop() awaits
    last_error,     \* ServerHealth.last_error of each record
    lastProbe,      \* the check_server call that returned last
    handle,         \* ServerManager._pools as a map: backend -> pool object
    created,        \* ConnectionPool objects constructed by the manager so far
    closedPools,    \* the pool objects on which close() has been awaited
    orphaned,       \* pool objects replaced in the map while still open
    writer,         \* per caller of the manager: its operation and position
    arg,            \* the function applied and the input given to it
    res             \* whether the function has returned, and what

poolVars == <<available, in_use, closed, lock, lockWaiters, nclients,
              closedClients, closeTodo, task>>

healthVars == <<servers, totals, running>>

mgrVars == <<enabled, pools, tools, resources, server_infos, initialized, lastOp>>

invVars == <<disabled_tools, last>>

probeVars == <<loop_task, loops, probes, startPc, stopPc, awaited, last_error,
               lastProbe>>

writerVars == <<handle, created, closedPools, orphaned, writer>>

pureVars == <<arg, res>>

vars == <<poolVars, healthVars, mgrVars, invVars, probeVars, writerVars,
          pureVars>>

\* ----------------------------------------------------------- initial state

\* Backend names are strings; a name is modelled as its sequence of characters
\* so that keys can be built and compared as the code does.  The two names
\* below are a plain one and one that extends it after a colon.
Backends == {<<"a">>, <<"a", ":", "b">>}

\* lastOp when no operation has run, and after one that no property follows.
NoOp == [op |-> "none", name |-> <<>>, ok |-> {}]
OtherOp == [op |-> "other", name |-> <<>>, ok |-> {}]

IdleTask == [op |-> "none", pc |-> "idle", client |-> 0, how |-> "none"]

\* ConnectionPool.__init__.
PoolInit ==
    /\ available = <<>>
    /\ in_use = {}
    /\ closed = FALSE
    /\ lock = 0
    /\ lockWaiters = <<>>
    /\ nclients = 0
    /\ closedClients = {}
    /\ closeTodo = {}
    /\ task = [t \in Tasks |-> IdleTask]

\* HealthStatus() and HealthChecker.__init__.
HealthInit ==
    /\ servers = << >>
    /\ totals = [healthy |-> 0, unhealthy |-> 0, unknown |-> 0]
    /\ running = FALSE

\* ServerManager.__init__ on a loaded configuration: every backend of the
\* file is enabled or not.
MgrInit ==
    /\ enabled \in [Backends -> BOOLEAN]
    /\ pools = {}
    /\ tools = {}
    /\ resources = {}
    /\ server_infos = {}
    /\ initialized = FALSE
    /\ lastOp = NoOp

\* No request has been handled.
NoRequest ==
    [op |-> "none", path |-> "none", server |-> <<>>, name |-> <<>>,
     form |-> "none", keys |-> {}, disabled |-> FALSE, up |-> "none",
     kind |-> "none", code |-> "none", message |-> <<>>,
     acquire |-> FALSE, called |-> FALSE, sent |-> "none"]

\* The configuration as loaded, and no request handled yet.
InvInit ==
    /\ disabled_tools = <<>>
    /\ last = NoRequest

\* No check_server call has returned.
NoProbe == [name |-> <<>>, by |-> <<"none">>, outcome |-> "none", result |-> "none"]

\* A health checker as constructed: no loop task, nothing in flight.
ProbeInit ==
    /\ loop_task = 0
    /\ loops = <<>>
    /\ probes = {}
    /\ startPc = "idle"
    /\ stopPc = "idle"
    /\ awaited = 0
    /\ last_error = << >>
    /\ lastProbe = NoProbe

NumWriters == 2
Writers == 1..NumWriters

\* A caller that is in none of the manager's operations.
IdleWriter ==
    [op |-> "none", pc |-> "idle", name |-> <<>>, pool |-> 0, todo |-> <<>>,
     visited |-> {}, size |-> 0, how |-> "none", left |-> {}, since |-> 0]

\* A manager as constructed: an empty pool map and no caller.
WriterInit ==
    /\ handle = << >>
    /\ created = 0
    /\ closedPools = {}
    /\ orphaned = {}
    /\ writer = [w \in Writers |-> IdleWriter]

\* No function is being applied.
PureInit ==
    /\ arg = [fn |-> "none"]
    /\ res = [done |-> FALSE, value |-> <<>>]

\* ------------------------------------------------------------ Part I: pool

Range(s) == {s[i] : i \in DOMAIN s}

\* The sequence s without its element x.
Without(s, x) == SelectSeq(s, LAMBDA y : y # x)

\* asyncio.Lock.release: the lock passes to the first waiter, if any.
LockAfterRelease == IF lockWaiters = <<>> THEN 0 ELSE Head(lockWaiters)
WaitersAfterRelease == IF lockWaiters = <<>> THEN <<>> ELSE Tail(lockWaiters)

\* Tasks suspended in _get_client, which may each call the factory.
PendingGets == {t \in Tasks : task[t].pc = "get_wait"}

\* --- _get_client, inside the lock: reuse the head of the queue or construct.
GetClientReuses == available # <<>>
GotClient == IF GetClientReuses THEN Head(available) ELSE nclients + 1

\* _get_client, were it to read the head of the queue without taking it.
GetClientPeeking(t, role) ==
    /\ available' = available
    /\ nclients' = IF GetClientReuses THEN nclients ELSE nclients + 1
    /\ in_use' = in_use \cup {GotClient}
    /\ task' = [task EXCEPT ![t].op = role, ![t].pc = "entering",
                            ![t].client = GotClient]

GetClientSection(t, role) ==
    /\ available' = IF GetClientReuses THEN Tail(available) ELSE available
    /\ nclients' = IF GetClientReuses THEN nclients ELSE nclients + 1
    /\ in_use' = in_use \cup {GotClient}
    /\ task' = [task EXCEPT ![t].op = role, ![t].pc = "entering",
                            ![t].client = GotClient]

\* --- where a task goes when its acquire scope has been left.
\* _get_client_for_health_check returns the client from inside the scope;
\* check_server then uses it ("probe").
AfterScope(t, how) ==
    IF task[t].op = "probe" /\ how = "ok" THEN "probe" ELSE "done"

\* --- _release_client, inside the lock.  The client goes back to the queue
\* unless the pool is closed or the queue is full; how the use ended is not
\* looked at.
PutBackUnlessError(how) ==
    how \notin {"error", "enter_failed"} /\ ~closed /\ Len(available) < max_size

PutBack(how) == ~closed /\ Len(available) < max_size

ReleaseSection(t, how, holder, waiters) ==
    LET c == task[t].client IN
    /\ in_use' = in_use \ {c}
    /\ IF PutBack(how)
       THEN /\ available' = Append(available, c)
            /\ lock' = holder
            /\ lockWaiters' = waiters
            /\ task' = [task EXCEPT ![t].pc = AfterScope(t, how), ![t].how = how]
       ELSE \* "await client.close()" with the lock held
            /\ available' = available
            /\ lock' = t
            /\ lockWaiters' = lockWaiters
            /\ task' = [task EXCEPT ![t].pc = "rel_closing", ![t].how = how]

\* The "finally" of acquire(): _release_client starts; it runs at once when the
\* lock is free and suspends in lock.acquire() otherwise.
ReleaseBegin(t, how) ==
    IF lock = 0
    THEN ReleaseSection(t, how, 0, <<>>)
    ELSE /\ lockWaiters' = Append(lockWaiters, t)
         /\ task' = [task EXCEPT ![t].pc = "rel_wait", ![t].how = how]
         /\ UNCHANGED <<available, in_use, lock>>

\* async with pool.acquire(): _get_client up to its first suspension.
\* role "acquire" is a caller, role "probe" the health checker's callback.
AcquireStart(t, role) ==
    /\ task[t].pc = "idle"
    /\ nclients + Cardinality(PendingGets) < MaxClients
    /\ IF closed
       THEN /\ task' = [task EXCEPT ![t].op = role, ![t].pc = "done",
                                    ![t].how = "pool_closed"]
            /\ UNCHANGED <<available, in_use, nclients, lockWaiters>>
       ELSE IF lock = 0
       THEN /\ GetClientSection(t, role)
            /\ UNCHANGED lockWaiters
       ELSE /\ lockWaiters' = Append(lockWaiters, t)
            /\ task' = [task EXCEPT ![t].op = role, ![t].pc = "get_wait"]
            /\ UNCHANGED <<available, in_use, nclients>>
    /\ UNCHANGED <<closed, lock, closedClients, closeTodo>>

\* _get_client resumes with the lock: the closed flag is not read again.
GetClientLocked(t) ==
    /\ task[t].pc = "get_wait"
    /\ lock = t
    /\ GetClientSection(t, task[t].op)
    /\ lock' = LockAfterRelease
    /\ lockWaiters' = WaitersAfterRelease
    /\ UNCHANGED <<closed, closedClients, closeTodo>>

\* "async with client": __aenter__ returns or raises.  When it raises, the
\* finally clause releases the client at once.
EnterClient(t, ok) ==
    /\ task[t].pc = "entering"
    /\ IF ok
       THEN /\ task' = [task EXCEPT ![t].pc = "body"]
            /\ UNCHANGED <<available, in_use, lock, lockWaiters>>
       ELSE ReleaseBegin(t, "enter_failed")
    /\ UNCHANGED <<closed, nclients, closedClients, closeTodo>>

\* The body of the scope ends, normally or with an upstream error; the client
\* is left (__aexit__) and the finally clause releases it.  The health
\* callback's body is "return client": it always ends normally.
BodyEnd(t, how) ==
    /\ task[t].pc = "body"
    /\ task[t].op = "probe" => how = "ok"
    /\ ReleaseBegin(t, how)
    /\ UNCHANGED <<closed, nclients, closedClients, closeTodo>>

\* _release_client resumes with the lock.
ReleaseLocked(t) ==
    /\ task[t].pc = "rel_wait"
    /\ lock = t
    /\ ReleaseSection(t, task[t].how, LockAfterRelease, WaitersAfterRelease)
    /\ UNCHANGED <<closed, nclients, closedClients, closeTodo>>

\* _release_client: "await client.close()" returns; the lock is released.
ReleaseCloseDone(t) ==
    /\ task[t].pc = "rel_closing"
    /\ closedClients' = closedClients \cup {task[t].client}
    /\ lock' = LockAfterRelease
    /\ lockWaiters' = WaitersAfterRelease
    /\ task' = [task EXCEPT ![t].pc = AfterScope(t, task[t].how)]
    /\ UNCHANGED <<available, in_use, closed, nclients, closeTodo>>

\* HealthChecker.check_server: "async with client: ping" on the client the
\* callback returned, then update_server.
ProbeDone(t) ==
    /\ task[t].pc = "probe"
    /\ task' = [task EXCEPT ![t].pc = "done"]
    /\ UNCHANGED <<available, in_use, closed, lock, lockWaiters, nclients,
                   closedClients, closeTodo>>

\* --- close(), inside the lock.  Each "await client.close()" suspends with
\* the lock held: first the available clients, then list(in_use).
CloseSection(t, holder, waiters) ==
    IF closed \/ (available = <<>> /\ in_use = {})
    THEN \* already closed, or nothing to close: the lock is released
         /\ closed' = TRUE
         /\ lock' = holder
         /\ lockWaiters' = waiters
         /\ task' = [task EXCEPT ![t].op = "close", ![t].pc = "done"]
         /\ UNCHANGED <<available, in_use, closeTodo>>
    ELSE /\ closed' = TRUE
         /\ lock' = t
         /\ lockWaiters' = lockWaiters
         /\ UNCHANGED in_use
         /\ IF available # <<>>
            THEN /\ available' = Tail(available)
                 /\ task' = [task EXCEPT ![t].op = "close", ![t].pc = "cl_avail",
                                         ![t].client = Head(available)]
                 /\ UNCHANGED closeTodo
            ELSE /\ \E c \in in_use :
                       /\ closeTodo' = in_use \ {c}
                       /\ task' = [task EXCEPT ![t].op = "close",
                                               ![t].pc = "cl_inuse",
                                               ![t].client = c]
                 /\ UNCHANGED available

\* close() up to its first suspension.
CloseStart(t) ==
    /\ task[t].pc = "idle"
    /\ IF lock = 0
       THEN CloseSection(t, 0, <<>>)
       ELSE /\ lockWaiters' = Append(lockWaiters, t)
            /\ task' = [task EXCEPT ![t].op = "close", ![t].pc = "cl_wait"]
            /\ UNCHANGED <<available, in_use, closed, lock, closeTodo>>
    /\ UNCHANGED <<nclients, closedClients>>

\* close() resumes with the lock.
CloseLocked(t) ==
    /\ task[t].pc = "cl_wait"
    /\ lock = t
    /\ CloseSection(t, LockAfterRelease, WaitersAfterRelease)
    /\ UNCHANGED <<nclients, closedClients>>

\* close(): one "await client.close()" returns; the loops go on.
CloseStep(t) ==
    /\ task[t].pc \in {"cl_avail", "cl_inuse"}
    /\ closedClients' = closedClients \cup {task[t].client}
    /\ UNCHANGED <<closed, nclients>>
    /\ IF task[t].pc = "cl_avail" /\ available # <<>>
       THEN /\ available' = Tail(available)
            /\ task' = [task EXCEPT ![t].client = Head(available)]
            /\ UNCHANGED <<in_use, lock, lockWaiters, closeTodo>>
       ELSE LET todo == IF task[t].pc = "cl_avail" THEN in_use ELSE closeTodo IN
            IF todo # {}
            THEN /\ \E c \in todo :
                       /\ closeTodo' = todo \ {c}
                       /\ task' = [task EXCEPT ![t].pc = "cl_inuse",
                                               ![t].client = c]
                 /\ UNCHANGED <<available, in_use, lock, lockWaiters>>
            ELSE \* self._in_use.clear(); the lock is released
                 /\ in_use' = {}
                 /\ closeTodo' = {}
                 /\ lock' = LockAfterRelease
                 /\ lockWaiters' = WaitersAfterRelease
                 /\ task' = [task EXCEPT ![t].pc = "done"]
                 /\ UNCHANGED available

\* The caller's task is cancelled while it is suspended: CancelledError is
\* raised at the await.  In _get_client and _release_client that await is
\* lock.acquire() (the waiter leaves the queue, or passes the lock on when it
\* had just been handed it) or client.close() (the lock is released).
Cancel(t) ==
    /\ task[t].op = "acquire"
    /\ task[t].how # "cancelled"
    /\ task[t].pc \in {"get_wait", "entering", "body", "rel_wait", "rel_closing"}
    /\ UNCHANGED <<closed, nclients, closedClients, closeTodo>>
    /\ IF task[t].pc \in {"entering", "body"}
       THEN \* the finally clause runs _release_client
            ReleaseBegin(t, "cancelled")
       ELSE /\ task' = [task EXCEPT ![t].pc = "done", ![t].how = "cancelled"]
            /\ UNCHANGED <<available, in_use>>
            /\ IF lock = t
               THEN /\ lock' = LockAfterRelease
                    /\ lockWaiters' = WaitersAfterRelease
               ELSE /\ lock' = lock
                    /\ lockWaiters' = Without(lockWaiters, t)

\* The task starts over with a new operation.
Restart(t) ==
    /\ task[t].pc = "done"
    /\ task' = [task EXCEPT ![t] = IdleTask]
    /\ UNCHANGED <<available, in_use, closed, lock, lockWaiters, nclients,
                   closedClients, closeTodo>>

\* The pool's steps leave the health records and the manager alone.
PoolOnly == UNCHANGED <<healthVars, mgrVars, invVars, probeVars, writerVars, pureVars>>

PoolNext ==
    \E t \in Tasks :
        \/ \E role \in {"acquire", "probe"} : AcquireStart(t, role) /\ PoolOnly
        \/ GetClientLocked(t) /\ PoolOnly
        \/ \E ok \in BOOLEAN : EnterClient(t, ok) /\ PoolOnly
        \/ \E how \in {"ok", "error"} : BodyEnd(t, how) /\ PoolOnly
        \/ ReleaseLocked(t) /\ PoolOnly
        \/ ReleaseCloseDone(t) /\ PoolOnly
        \/ ProbeDone(t) /\ PoolOnly
        \/ CloseStart(t) /\ PoolOnly
        \/ CloseLocked(t) /\ PoolOnly
        \/ CloseStep(t) /\ PoolOnly
        \/ Cancel(t) /\ PoolOnly
        \/ Restart(t) /\ PoolOnly

PoolOnlyInit ==
    /\ PoolInit
    /\ HealthInit
    /\ MgrInit
    /\ InvInit
    /\ ProbeInit
    /\ WriterInit
    /\ PureInit
    /\ \A b \in Backends : enabled[b]

SpecPool == PoolOnlyInit /\ [][PoolNext]_vars

\* ------------------------------------------------------- claims on the pool

\* C1: the pool never holds more than max_size clients, available and in use
\* together: at capacity an acquire constructs no further client.
C1_TotalWithinCapacity == Len(available) + Cardinality(in_use) <= max_size

\* The tasks using client c: inside an acquire scope, or probing with it.
UsersOf(c) ==
    {t \in Tasks : task[t].client = c /\ task[t].pc \in {"entering", "body", "probe"}}

\* C2: no client is used by two users at once, callers in an acquire scope and
\* the health checker probing with the client its callback returned.
C2_NoSharedClient == \A c \in 1..nclients : Cardinality(UsersOf(c)) <= 1

\* Task t is handed a client in this step.
HandedClient(t) == task[t].pc \in {"idle", "get_wait"} /\ task'[t].pc = "entering"

\* C3: once close() has marked the pool closed, no acquire hands out a client,
\* an acquire that was waiting for the lock when close ran included.
C3_NoClientAfterClose == [][closed => \A t \in Tasks : ~HandedClient(t)]_vars

\* Task t leaves its acquire scope in this step, having obtained a client.
LeavesScope(t) ==
    /\ task[t].op \in {"acquire", "probe"}
    /\ task[t].pc \in {"entering", "body", "rel_wait", "rel_closing"}
    /\ task'[t].pc \in {"done", "probe"}

\* C4: on every exit path of an acquire scope (normal, error in the body,
\* failure entering the client, cancellation) the client has left the in-use
\* set when the scope has been left.
C4_ReleasedOnExit ==
    [][\A t \in Tasks : LeavesScope(t) => task[t].client \notin in_use']_vars

\* The release of a client whose use ended with an upstream error runs its
\* locked section in this step.
ErrorRelease(t) ==
    /\ task[t].pc \in {"entering", "body", "rel_wait"}
    /\ task'[t].pc \in {"done", "rel_closing"}
    /\ task'[t].how \in {"error", "enter_failed"}

NewHealth == [status |-> "unknown", consecutive_failures |-> 0]

\* HealthStatus._recalculate over the records sv.
Recalculate(sv) ==
    [healthy   |-> Cardinality({n \in DOMAIN sv : sv[n].status = "healthy"}),
     unhealthy |-> Cardinality({n \in DOMAIN sv : sv[n].status = "unhealthy"}),
     unknown   |-> Cardinality({n \in DOMAIN sv : sv[n].status = "unknown"})]

\* update_server, were a failure to put the record back to unknown.
UpdatedRecordForgetting(old, is_healthy) ==
    IF is_healthy
    THEN [status |-> "healthy", consecutive_failures |-> 0]
    ELSE [status |-> "unknown",
          consecutive_failures |-> old.consecutive_failures + 1]

\* update_server, were a success to leave the failure counter as it is.
UpdatedRecordKeepingCount(old, is_healthy) ==
    IF is_healthy
    THEN [status |-> "healthy",
          consecutive_failures |-> old.consecutive_failures]
    ELSE [status |-> "unhealthy",
          consecutive_failures |-> old.consecutive_failures + 1]

\* HealthStatus.update_server: the record of one server after a probe (its
\* status and failure counter; the time stamps and the error text are left
\* out).
UpdatedRecord(old, is_healthy) ==
    IF is_healthy
    THEN [status |-> "healthy", consecutive_failures |-> 0]
    ELSE [status |-> "unhealthy",
          consecutive_failures |-> old.consecutive_failures + 1]

\* HealthStatus.update_server: a missing record is created first.
UpdateServer(sv, name, is_healthy) ==
    LET old == IF name \in DOMAIN sv THEN sv[name] ELSE NewHealth IN
    [n \in DOMAIN sv \cup {name} |->
        IF n = name THEN UpdatedRecord(old, is_healthy) ELSE sv[n]]

\* The outcomes of one probe: the callback gave no client, the ping
\* succeeded, or the ping timed out or raised.
ProbeOutcomes == {"no_client", "ok", "failed"}

\* HealthChecker.check_server: the records after a probe of name.
CheckServerResult(sv, name, outcome) ==
    UpdateServer(sv, name, outcome = "ok")

\* HealthChecker.start: unknown records for the names not yet tracked.
WithTracked(sv, names) ==
    [n \in DOMAIN sv \cup names |-> IF n \in DOMAIN sv THEN sv[n] ELSE NewHealth]

\* HealthChecker.check_all_servers: every name is probed; po gives each
\* probe's outcome.
RECURSIVE CheckAll(_, _, _)
CheckAll(sv, names, po) ==
    IF names = {} THEN sv
    ELSE LET n == CHOOSE x \in names : TRUE IN
         CheckAll(CheckServerResult(sv, n, po[n]), names \ {n}, po)

\* The failure counter stays within the model's bound.
CanProbe(sv, name, outcome) ==
    outcome # "ok" /\ name \in DOMAIN sv
        => sv[name].consecutive_failures < MaxFailures

\* check_server(name), from the loop or from a manual check.
CheckServer(name, outcome) ==
    /\ CanProbe(servers, name, outcome)
    /\ servers' = CheckServerResult(servers, name, outcome)
    /\ totals' = Recalculate(servers')
    /\ UNCHANGED running

\* HealthChecker.start(names) with its initial check of every name.
StartChecker(names, po) ==
    /\ \A n \in names : CanProbe(servers, n, po[n])
    /\ IF running
       THEN UNCHANGED <<servers, totals, running>>
       ELSE /\ running' = TRUE
            /\ servers' = CheckAll(WithTracked(servers, names), names, po)
            /\ totals' = IF names = {} THEN totals ELSE Recalculate(servers')

\* HealthChecker.stop.
StopChecker ==
    /\ running' = FALSE
    /\ UNCHANGED <<servers, totals>>

\* The health checker on its own: start, stop and probes of any backend.
HealthOnly == UNCHANGED <<poolVars, mgrVars, invVars, probeVars, writerVars, pureVars>>

\* The names the checker is asked about: the configured backends and a name
\* that no backend has.
ServerNames == Backends \cup {<<"c">>}

HealthNext ==
    \/ \E names \in SUBSET ServerNames, po \in [ServerNames -> ProbeOutcomes] :
           StartChecker(names, po) /\ HealthOnly
    \/ StopChecker /\ HealthOnly
    \/ \E name \in ServerNames, outcome \in ProbeOutcomes :
           CheckServer(name, outcome) /\ HealthOnly

HealthOnlyInit ==
    /\ PoolInit
    /\ HealthInit
    /\ MgrInit
    /\ InvInit
    /\ ProbeInit
    /\ WriterInit
    /\ PureInit
    /\ \A b \in Backends : enabled[b]

SpecHealth == HealthOnlyInit /\ [][HealthNext]_vars

\* ---------------------------------------------- claims on the health records

\* HealthChecker.__init__(failure_threshold=2): consecutive failures before a
\* server is to be marked unhealthy.
failure_threshold == 2

\* C6: a backend is unhealthy only when its consecutive-failure count has
\* reached the failure threshold; with fewer failures it is not yet reported
\* unhealthy.
C6_UnhealthyOnlyAtThreshold ==
    \A n \in DOMAIN servers :
        servers[n].status = "unhealthy"
            => servers[n].consecutive_failures >= failure_threshold

\* --------------------------------------------------- Part III: the manager

\* self._config.mcpServers.items(): the backends in the order of the file.
ConfigOrder == << <<"a">>, <<"a", ":", "b">> >>

\* What list_tools and list_resources of a backend return.
UpstreamTools(b) == {<<"x">>}
UpstreamResources(b) == {<<"r">>}

\* f"{server}:{x}", the key of a cache entry.
Key(server, x) == server \o <<":">> \o x

\* key.startswith(pre)
StartsWith(key, pre) ==
    Len(key) >= Len(pre) /\ SubSeq(key, 1, Len(pre)) = pre

\* self._tools[key] = ToolInfo(...) for every tool of the server: an entry
\* replaces the one its key had.
PutAll(cache, server, names) ==
    {e \in cache : e.key \notin {Key(server, n) : n \in names}}
        \cup {[key |-> Key(server, n), server_name |-> server, name |-> n] :
                  n \in names}

\* The cache without the entries whose key starts with f"{name}:".
RemovePrefixed(cache, name) ==
    {e \in cache : ~StartsWith(e.key, name \o <<":">>)}

\* How the connection of one backend goes: the configuration is invalid or
\* entering the client fails, list_tools raises, list_resources raises (which
\* is tolerated), leaving the client scope raises, or all of it succeeds.
ConnectOutcomes ==
    {"not_entered", "tools_failed", "resources_failed", "exit_failed", "ok"}

\* The outcomes with which the try block runs to its end.
Succeeds(o) == o \in {"resources_failed", "ok"}

\* The caches and the pool map of the manager, as one record.
MgrState ==
    [pools |-> pools, tools |-> tools, resources |-> resources,
     server_infos |-> server_infos]

\* The try block of connect_server and of initialize's loop body for backend
\* b: the statements run in order until one raises.
ConnectAttempt(st, b, o) ==
    [server_infos |->
         IF o \in {"tools_failed", "resources_failed", "exit_failed", "ok"}
         THEN st.server_infos \cup {b} ELSE st.server_infos,
     tools |->
         IF o \in {"resources_failed", "exit_failed", "ok"}
         THEN PutAll(st.tools, b, UpstreamTools(b)) ELSE st.tools,
     resources |->
         IF o \in {"exit_failed", "ok"}
         THEN PutAll(st.resources, b, UpstreamResources(b)) ELSE st.resources,
     pools |-> IF Succeeds(o) THEN st.pools \cup {b} ELSE st.pools]

\* initialize's loop, were it to end at the first backend that fails.
RECURSIVE InitializeAllAborting(_, _, _)
InitializeAllAborting(st, order, oc) ==
    IF order = <<>> THEN st
    ELSE LET b == Head(order) IN
         IF ~enabled[b] THEN InitializeAllAborting(st, Tail(order), oc)
         ELSE IF Succeeds(oc[b])
         THEN InitializeAllAborting(ConnectAttempt(st, b, oc[b]), Tail(order), oc)
         ELSE ConnectAttempt(st, b, oc[b])

\* initialize's loop over the configured backends: a disabled one is skipped,
\* a failure is logged and the loop goes on.
RECURSIVE InitializeAll(_, _, _)
InitializeAll(st, order, oc) ==
    IF order = <<>> THEN st
    ELSE LET b == Head(order) IN
         InitializeAll(IF enabled[b] THEN ConnectAttempt(st, b, oc[b]) ELSE st,
                       Tail(order), oc)

\* HealthChecker.add_server(name): the backend is tracked from now on.
AddServer(sv, name) == WithTracked(sv, {name})

\* HealthChecker.remove_server(name): its record is dropped.
RemoveServer(sv, name) == [n \in DOMAIN sv \ {name} |-> sv[n]]

\* No pool, cache entry or health record of b exists.
Clean(b) ==
    /\ b \notin pools
    /\ b \notin server_infos
    /\ \A e \in tools : e.server_name # b
    /\ \A e \in resources : e.server_name # b
    /\ b \notin DOMAIN servers

\* The outcomes a probe can have: without a pool the callback returns None.
ProbeOutcomesOf(b, ps) == IF b \in ps THEN ProbeOutcomes ELSE {"no_client"}

\* initialize(): every enabled backend is connected in turn, then the health
\* checker is started on the connected ones and probes each once.
InitializeFrom(st0, oc, op) ==
    LET st == InitializeAll(st0, ConfigOrder, oc) IN
    /\ pools' = st.pools
    /\ tools' = st.tools
    /\ resources' = st.resources
    /\ server_infos' = st.server_infos
    /\ initialized' = TRUE
    /\ UNCHANGED enabled
    /\ IF st.pools # {}
       THEN \E po \in [st.pools -> ProbeOutcomes] :
                /\ \A b \in st.pools : CanProbe(servers, b, po[b])
                /\ running' = TRUE
                /\ servers' = CheckAll(WithTracked(servers, st.pools), st.pools, po)
                /\ totals' = Recalculate(servers')
       ELSE UNCHANGED <<servers, totals, running>>
    /\ lastOp' = [op |-> op, name |-> <<>>,
                  ok |-> {b \in Backends : enabled[b] /\ Succeeds(oc[b])}]

Initialize(oc) ==
    /\ ~initialized
    /\ InitializeFrom(MgrState, oc, "initialize")

\* connect_server(name) with the outcome o of its connection.
ConnectServerCall(b, o) ==
    IF b \in pools \/ ~enabled[b]
    THEN UNCHANGED <<pools, tools, resources, server_infos, servers, totals>>
    ELSE LET st == ConnectAttempt(MgrState, b, o) IN
         /\ pools' = st.pools
         /\ tools' = st.tools
         /\ resources' = st.resources
         /\ server_infos' = st.server_infos
         /\ servers' = IF Succeeds(o) THEN AddServer(servers, b) ELSE servers
         /\ totals' = Recalculate(servers')

ConnectServer(b, o) ==
    /\ initialized
    /\ ConnectServerCall(b, o)
    /\ lastOp' = IF enabled[b] /\ Clean(b)
                 THEN [op |-> "connect", name |-> b, ok |-> {}]
                 ELSE OtherOp
    /\ UNCHANGED <<enabled, initialized, running>>

\* disconnect_server(name).
DisconnectServerCall(b) ==
    IF b \notin pools
    THEN UNCHANGED <<pools, tools, resources, server_infos, servers, totals>>
    ELSE /\ servers' = RemoveServer(servers, b)
         /\ totals' = Recalculate(servers')
         /\ pools' = pools \ {b}
         /\ tools' = RemovePrefixed(tools, b)
         /\ resources' = RemovePrefixed(resources, b)
         /\ server_infos' = server_infos \ {b}

DisconnectServer(b) ==
    /\ initialized
    /\ DisconnectServerCall(b)
    /\ lastOp' = IF lastOp.op = "connect" /\ lastOp.name = b
                 THEN [op |-> "disconnect", name |-> b, ok |-> {}]
                 ELSE OtherOp
    /\ UNCHANGED <<enabled, initialized, running>>

\* The dashboard's POST /servers/{name}/toggle: the flag is flipped in the
\* configuration, the configuration is saved, which may raise, and then the
\* backend is connected or disconnected.
ToggleServer(b, saveOk, o) ==
    /\ initialized
    /\ enabled' = [enabled EXCEPT ![b] = ~enabled[b]]
    /\ IF ~saveOk
       THEN UNCHANGED <<pools, tools, resources, server_infos, servers, totals>>
       ELSE IF enabled'[b]
       THEN IF b \in pools
            THEN UNCHANGED <<pools, tools, resources, server_infos, servers, totals>>
            ELSE LET st == ConnectAttempt(MgrState, b, o) IN
                 /\ pools' = st.pools
                 /\ tools' = st.tools
                 /\ resources' = st.resources
                 /\ server_infos' = st.server_infos
                 /\ servers' = IF Succeeds(o) THEN AddServer(servers, b) ELSE servers
                 /\ totals' = Recalculate(servers')
       ELSE DisconnectServerCall(b)
    /\ lastOp' = OtherOp
    /\ UNCHANGED <<initialized, running>>

\* close(): the health checker is stopped, the pools are closed and the
\* caches cleared.  The health records stay.
CloseAll ==
    [pools |-> {}, tools |-> {}, resources |-> {}, server_infos |-> {}]

\* close(), were it to leave the health checker running.
CloseKeepingChecker ==
    /\ pools' = {}
    /\ tools' = {}
    /\ resources' = {}
    /\ server_infos' = {}
    /\ initialized' = FALSE
    /\ lastOp' = [op |-> "close", name |-> <<>>, ok |-> {}]
    /\ UNCHANGED <<enabled, servers, totals, running>>

Close ==
    /\ running' = FALSE
    /\ pools' = {}
    /\ tools' = {}
    /\ resources' = {}
    /\ server_infos' = {}
    /\ initialized' = FALSE
    /\ lastOp' = [op |-> "close", name |-> <<>>, ok |-> {}]
    /\ UNCHANGED <<enabled, servers, totals>>

\* reload(): close() and then initialize().
Reload(oc) ==
    /\ initialized
    /\ InitializeFrom(CloseAll, oc, "initialize")

\* A probe of b: check_server_health(b) from the dashboard, or the checker's
\* loop, which probes the backends that have a record.
Probe(b, outcome) ==
    /\ initialized
    /\ outcome \in ProbeOutcomesOf(b, pools)
    /\ CheckServer(b, outcome)
    /\ UNCHANGED mgrVars

MgrOnly == UNCHANGED <<poolVars, invVars, probeVars, writerVars, pureVars>>

MgrNext ==
    \/ \E oc \in [Backends -> ConnectOutcomes] : Initialize(oc) /\ MgrOnly
    \/ \E b \in Backends, o \in ConnectOutcomes : ConnectServer(b, o) /\ MgrOnly
    \/ \E b \in Backends : DisconnectServer(b) /\ MgrOnly
    \/ \E b \in Backends, saveOk \in BOOLEAN, o \in ConnectOutcomes :
           ToggleServer(b, saveOk, o) /\ MgrOnly
    \/ Close /\ MgrOnly
    \/ \E oc \in [Backends -> ConnectOutcomes] : Reload(oc) /\ MgrOnly
    \/ \E b \in Backends, outcome \in ProbeOutcomes : Probe(b, outcome) /\ MgrOnly

MgrOnlyInit ==
    /\ PoolInit
    /\ HealthInit
    /\ MgrInit
    /\ InvInit
    /\ ProbeInit
    /\ WriterInit
    /\ PureInit

SpecMgr == MgrOnlyInit /\ [][MgrNext]_vars

\* ------------------------------------------------- claims on the manager

\* C7: connect_server(b) on an enabled backend b that is not connected and has
\* left no trace, followed by disconnect_server(b), leaves the manager as it
\* was: b has no pool and no tool, resource, server-info or health record.
C7_ConnectDisconnectRestores ==
    lastOp.op = "disconnect" => Clean(lastOp.name)

\* C8: a backend is in the pool map only if it is enabled in the configuration
\* and its catalog was fetched.
C8_PoolOnlyIfEnabled ==
    \A b \in pools : enabled[b] /\ b \in server_infos

\* Backend b has a server-info record, a tool entry or a resource entry.
HasCatalog(b) ==
    \/ b \in server_infos
    \/ \E e \in tools : e.server_name = b
    \/ \E e \in resources : e.server_name = b

\* C9: catalog entries exist only for backends that are in the pool map: a
\* connection that fails leaves no server-info, tool or resource entry.
C9_CatalogOnlyIfConnected ==
    \A b \in Backends : HasCatalog(b) => b \in pools

\* C10: after initialize the manager is marked initialized and the pool map
\* holds exactly the enabled backends whose own connection succeeded: a
\* backend that failed is absent and keeps no other backend out.
C10_InitializeIsolatesFailures ==
    lastOp.op = "initialize" =>
        /\ initialized
        /\ \A b \in Backends : b \in pools <=> b \in lastOp.ok

\* initialize has run, the first backend of the configuration was enabled and
\* failed to connect, and the second one is connected.
C10_Witness ==
    /\ lastOp.op = "initialize"
    /\ enabled[ConfigOrder[1]]
    /\ ConfigOrder[1] \notin lastOp.ok
    /\ ConfigOrder[2] \in pools

InputSchema(b, t) ==
    IF b = <<"a">>
    THEN [required |-> {}, properties |-> {"p"}]
    ELSE [required |-> {"p"}, properties |-> {"p", "q"}]

\* The arguments of a request: the field is absent from the body, it is
\* null, or it is a map with the given keys.
Arguments ==
    {[form |-> "absent", keys |-> {}], [form |-> "null", keys |-> {}]}
        \cup {[form |-> "map", keys |-> ks] : ks \in {{}, {"p"}, {"p", "z"}}}

\* The servers, tools and resources a request may name.
RequestServers == Backends \cup {<<"z">>}
RequestTools == {<<"x">>, <<"y">>}
RequestUris == {<<"r">>}

\* f"{server_name}.{tool_name}", the key of the disabled-tools list.
ToolKey(server, tool) == server \o <<".">> \o tool

\* tool_key in self._config.disabled_tools
IsToolDisabled(dt, key) == \E i \in DOMAIN dt : dt[i] = key

\* list.remove(key): the first occurrence goes.
RECURSIVE Remove(_, _)
Remove(dt, key) ==
    IF dt = <<>> THEN <<>>
    ELSE IF Head(dt) = key THEN Tail(dt)
    ELSE <<Head(dt)>> \o Remove(Tail(dt), key)

\* ConfigManager.disable_tool.
DisableTool(dt, key) == IF IsToolDisabled(dt, key) THEN dt ELSE Append(dt, key)

\* enable_tool, were it to leave the list as it is.
EnableToolKeeping(dt, key) == dt

\* ConfigManager.enable_tool.
EnableTool(dt, key) == IF IsToolDisabled(dt, key) THEN Remove(dt, key) ELSE dt

\* _validate_arguments: `arguments or {}` is checked, first for the required
\* fields, then for keys that are not properties.
ValidateArguments(args, schema) ==
    LET keys == IF args.form = "map" THEN args.keys ELSE {} IN
    IF ~(schema.required \subseteq keys) THEN "missing"
    ELSE IF ~(keys \subseteq schema.properties) THEN "unknown"
    ELSE "ok"

\* ExecutionError without the text of the exception it wraps.
ExecutionErrorWithoutCause(server, tool, error) ==
    [code |-> "EXECUTION_ERROR", message |-> <<"Error executing", server, tool>>]

\* ExecutionError(server_name, tool_name, error): the message ends with the
\* text of the wrapped exception.
ExecutionError(server, tool, error) ==
    [code |-> "EXECUTION_ERROR",
     message |-> <<"Error executing", server, tool, error>>]

\* What the upstream does with a call that reaches it, and the text of the
\* exception it raises.
UpstreamOutcomes == {"ok", "acquire_failed", "call_failed"}
ErrorText(up) == IF up = "acquire_failed" THEN "connect refused" ELSE "tool crashed"

\* call(), were it to enter the try block without validating the arguments.
StopsAtUnvalidated(server, tool, args, ps, ts) ==
    IF server \notin ps THEN "SERVER_NOT_FOUND"
    ELSE IF \A e \in ts : e.key # Key(server, tool) THEN "TOOL_NOT_FOUND"
    ELSE "none"

\* The checks of call() before its try block, in order: the pool of the
\* server, the cache entry of the tool, the arguments against the schema of
\* that entry. The result is the error raised, "none" if the try block is
\* reached.
StopsAt(server, tool, args, ps, ts) ==
    IF server \notin ps THEN "SERVER_NOT_FOUND"
    ELSE IF \A e \in ts : e.key # Key(server, tool) THEN "TOOL_NOT_FOUND"
    ELSE LET e == CHOOSE e \in ts : e.key = Key(server, tool) IN
         IF ValidateArguments(args, InputSchema(e.server_name, e.name)) # "ok"
         THEN "VALIDATION_ERROR"
         ELSE "none"

\* What call_tool receives as `arguments`: the value call() was given.
Sent(args) == IF args.form = "map" THEN "map" ELSE "null"

\* ServerManager.call(server, tool, arguments) on an initialized manager with
\* pools ps and tool cache ts, the upstream behaving as up: what the caller
\* observes, and how far the call went.
ManagerCall(server, tool, args, ps, ts, up) ==
    LET stop == StopsAt(server, tool, args, ps, ts) IN
    IF stop # "none"
    THEN [kind |-> "raised", code |-> stop, message |-> <<stop>>,
          acquire |-> FALSE, called |-> FALSE, sent |-> "none"]
    ELSE IF up = "ok"
    THEN [kind |-> "value", code |-> "none", message |-> <<>>,
          acquire |-> TRUE, called |-> TRUE, sent |-> Sent(args)]
    ELSE LET e == ExecutionError(server, tool, ErrorText(up)) IN
         [kind |-> "raised", code |-> e.code, message |-> e.message,
          acquire |-> TRUE, called |-> up = "call_failed",
          sent |-> IF up = "call_failed" THEN Sent(args) ELSE "none"]


\* ServerManager.read(server, uri): only the pool is looked up; a null or
\* empty result and every exception of the try block become
\* ResourceNotFoundError.
ReadOutcomes == {"ok", "null", "empty", "acquire_failed", "call_failed"}

\* read, were it to have no except clause.
ManagerReadUncaught(server, uri, ps, up) ==
    IF server \notin ps
    THEN [kind |-> "raised", code |-> "SERVER_NOT_FOUND",
          message |-> <<"SERVER_NOT_FOUND">>,
          acquire |-> FALSE, called |-> FALSE, sent |-> "none"]
    ELSE IF up = "ok"
    THEN [kind |-> "value", code |-> "none", message |-> <<>>,
          acquire |-> TRUE, called |-> TRUE, sent |-> "none"]
    ELSE [kind |-> "raised",
          code |-> IF up \in {"null", "empty"} THEN "RESOURCE_NOT_FOUND"
                   ELSE "EXCEPTION",
          message |-> <<"error">>,
          acquire |-> TRUE, called |-> up # "acquire_failed", sent |-> "none"]

ManagerRead(server, uri, ps, up) ==
    IF server \notin ps
    THEN [kind |-> "raised", code |-> "SERVER_NOT_FOUND",
          message |-> <<"SERVER_NOT_FOUND">>,
          acquire |-> FALSE, called |-> FALSE, sent |-> "none"]
    ELSE IF up = "ok"
    THEN [kind |-> "value", code |-> "none", message |-> <<>>,
          acquire |-> TRUE, called |-> TRUE, sent |-> "none"]
    ELSE [kind |-> "raised", code |-> "RESOURCE_NOT_FOUND",
          message |-> <<"RESOURCE_NOT_FOUND">>,
          acquire |-> TRUE, called |-> up # "acquire_failed", sent |-> "none"]

\* The index of the first "." of a string, 0 if it has none.
RECURSIVE FirstDot(_, _)
FirstDot(m, i) ==
    IF i > Len(m) THEN 0
    ELSE IF m[i] = "." THEN i
    ELSE FirstDot(m, i + 1)

\* The index of the last "." of a string, 0 if it has none.
RECURSIVE LastDot(_, _)
LastDot(m, i) ==
    IF i = 0 THEN 0
    ELSE IF m[i] = "." THEN i
    ELSE LastDot(m, i - 1)

\* The split, were it made at the last dot.
SplitAtLastDot(m) ==
    LET i == LastDot(m, Len(m)) IN
    IF i = 0 THEN <<m>>
    ELSE <<SubSeq(m, 1, i - 1), SubSeq(m, i + 1, Len(m))>>

\* method.split(".", 1)
Split(m) ==
    LET i == FirstDot(m, 1) IN
    IF i = 0 THEN <<m>>
    ELSE <<SubSeq(m, 1, i - 1), SubSeq(m, i + 1, Len(m))>>

\* body.get("arguments", {}): an absent field is the empty map, a null
\* stays null.
BodyArguments(args) ==
    IF args.form = "absent" THEN [form |-> "map", keys |-> {}] ELSE args

\* A response of the dashboard that carries an error and a status.
ErrorResponse(status, message, r) ==
    [kind |-> "error_value", code |-> status, message |-> message,
     acquire |-> r.acquire, called |-> r.called, sent |-> r.sent]

NotRouted == [acquire |-> FALSE, called |-> FALSE, sent |-> "none"]

\* POST /invoke: the method is split at its first ".", a disabled tool is
\* refused with 403, and the call goes to the manager; whatever the manager
\* raises becomes a 500 response carrying str(e).
InvokeTool(method, args, dt, ps, ts, up) ==
    LET parts == Split(method) IN
    IF method = <<>> THEN ErrorResponse("400", <<"Missing 'method' field">>, NotRouted)
    ELSE IF Len(parts) # 2
    THEN ErrorResponse("400", <<"Invalid method format">>, NotRouted)
    ELSE IF IsToolDisabled(dt, ToolKey(parts[1], parts[2]))
    THEN ErrorResponse("403", <<"Tool is disabled">>, NotRouted)
    ELSE LET r == ManagerCall(parts[1], parts[2], BodyArguments(args), ps, ts, up) IN
         IF r.kind = "raised" THEN ErrorResponse("500", r.message, r) ELSE r

\* The record of a handled request: what was asked, whether the tool was in
\* the disabled list at that time, what the upstream did if it was reached,
\* and the outcome r.
Handled(op, path, server, name, args, dis, up, r) ==
    [op |-> op, path |-> path, server |-> server, name |-> name,
     form |-> args.form, keys |-> args.keys, disabled |-> dis,
     up |-> IF r.acquire THEN up ELSE "none",
     kind |-> r.kind, code |-> r.code, message |-> r.message,
     acquire |-> r.acquire, called |-> r.called, sent |-> r.sent]

\* How the connections of a lazy initialization go: on an initialized
\* manager none is made.
LazyOutcomes ==
    IF initialized THEN {[b \in Backends |-> "ok"]}
    ELSE [Backends -> {"not_entered", "ok"}]

\* ensure_initialized(): initialize() runs if it has not yet.
EnsureInitialized(oc) ==
    IF initialized
    THEN UNCHANGED <<mgrVars, healthVars>>
    ELSE InitializeFrom(MgrState, oc, "initialize")

\* await manager.call(server, tool, arguments)
Call(server, tool, args, up, oc) ==
    /\ args.form # "absent"
    /\ EnsureInitialized(oc)
    /\ last' = Handled("invoke", "manager", server, tool, args,
                       IsToolDisabled(disabled_tools, ToolKey(server, tool)), up,
                       ManagerCall(server, tool, args, pools', tools', up))
    /\ UNCHANGED disabled_tools

\* await manager.read(server, uri)
Read(server, uri, up, oc) ==
    /\ EnsureInitialized(oc)
    /\ last' = Handled("read", "manager", server, uri,
                       [form |-> "none", keys |-> {}], FALSE, up,
                       ManagerRead(server, uri, pools', up))
    /\ UNCHANGED disabled_tools

\* The methods a dashboard request may carry: "server.tool", a string
\* without a dot, an empty string.
Methods ==
    {ToolKey(sv, t) : sv \in RequestServers, t \in RequestTools}
        \cup {<<"a">>, <<>>}

\* POST /invoke with a body {"method": ..., "arguments": ...}
PostInvoke(method, args, up, oc) ==
    LET parts == Split(method)
        routed == method # <<>> /\ Len(parts) = 2
        r == InvokeTool(method, args, disabled_tools, pools', tools', up)
    IN
    /\ IF routed /\ ~IsToolDisabled(disabled_tools, method)
       THEN EnsureInitialized(oc)
       ELSE UNCHANGED <<mgrVars, healthVars>>
    /\ last' = Handled("invoke", "dashboard",
                       IF routed THEN parts[1] ELSE method,
                       IF routed THEN parts[2] ELSE <<>>,
                       args, routed /\ IsToolDisabled(disabled_tools, method),
                       up, r)
    /\ UNCHANGED disabled_tools

\* POST /tools/{server}/{tool}/toggle: a tool the manager has cached is
\* moved into or out of the disabled list.
ToggleTool(server, tool) ==
    /\ \E e \in tools : e.key = Key(server, tool)
    /\ disabled_tools' =
           IF IsToolDisabled(disabled_tools, ToolKey(server, tool))
           THEN EnableTool(disabled_tools, ToolKey(server, tool))
           ELSE DisableTool(disabled_tools, ToolKey(server, tool))
    /\ UNCHANGED <<mgrVars, healthVars, last>>

InvOnly == UNCHANGED <<poolVars, probeVars, writerVars, pureVars>>

InvNext ==
    \/ \E sv \in RequestServers, t \in RequestTools, args \in Arguments,
          up \in UpstreamOutcomes, oc \in LazyOutcomes :
           Call(sv, t, args, up, oc) /\ InvOnly
    \/ \E sv \in RequestServers, u \in RequestUris, up \in ReadOutcomes,
          oc \in LazyOutcomes :
           Read(sv, u, up, oc) /\ InvOnly
    \/ \E m \in Methods, args \in Arguments, up \in UpstreamOutcomes,
          oc \in LazyOutcomes :
           PostInvoke(m, args, up, oc) /\ InvOnly
    \/ \E sv \in RequestServers, t \in RequestTools : ToggleTool(sv, t) /\ InvOnly

InvOnlyInit ==
    /\ PoolInit
    /\ HealthInit
    /\ MgrInit
    /\ InvInit
    /\ ProbeInit
    /\ WriterInit
    /\ PureInit
    /\ \A b \in Backends : enabled[b]

SpecInvoke == InvOnlyInit /\ [][InvNext]_vars


\* ------------------------------------------- claims on invoke and read

\* C12: an invoke of a tool whose key "{server}.{tool}" is in the disabled
\* list is refused as tool-disabled on every entry path, and no client is
\* acquired for it.
C12_DisabledNeverForwarded ==
    (last.op = "invoke" /\ last.disabled) =>
        /\ last.kind # "value"
        /\ last.code \in {"403", "TOOL_DISABLED"}
        /\ ~last.acquire
        /\ ~last.called

\* C13: invoke and read never throw to their caller: no request ends with
\* an exception leaving the operation.
C13_NeverThrown ==
    last.op \in {"invoke", "read"} => last.kind # "raised"

\* The upstream was reached by an invoke and raised.
UpstreamRaised ==
    /\ last.op = "invoke"
    /\ last.up \in {"acquire_failed", "call_failed"}

\* C14: an exception raised while acquiring a client or calling the
\* upstream tool leaves ServerManager.call as an ExecutionError with code
\* EXECUTION_ERROR, and on both entry paths the error reported is the
\* message of that ExecutionError, which ends with the original text.
C14_WrappedAsExecutionError ==
    UpstreamRaised =>
        /\ last.kind # "value"
        /\ last.message =
               <<"Error executing", last.server, last.name, ErrorText(last.up)>>
        /\ last.path = "manager" =>
               last.kind = "raised" /\ last.code = "EXECUTION_ERROR"
        /\ last.path = "dashboard" =>
               last.kind = "error_value" /\ last.code = "500"

\* An invoke through the dashboard met a tool call that raised.
C14_Witness ==
    /\ UpstreamRaised
    /\ last.path = "dashboard"
    /\ last.up = "call_failed"
    /\ last.called

\* The request handled last was routed and names an unknown backend or an
\* unknown tool, lacks a required argument or carries an argument that is
\* not a property of the schema.
FailsLookupOrValidation ==
    /\ last.op = "invoke"
    /\ ~last.disabled
    /\ last.code # "400"
    /\ \/ last.server \notin pools
       \/ \A e \in tools : e.key # Key(last.server, last.name)
       \/ \E e \in tools :
              /\ e.key = Key(last.server, last.name)
              /\ LET schema == InputSchema(e.server_name, e.name)
                     keys == IF last.form = "map" THEN last.keys ELSE {}
                 IN  \/ \E f \in schema.required : f \notin keys
                     \/ \E k \in keys : k \notin schema.properties

\* C15: when the backend or the tool is unknown, a required argument is
\* missing or an argument is not among the properties of the schema, no
\* client is acquired and the upstream is not called.
C15_ValidatedBeforeAcquire ==
    FailsLookupOrValidation =>
        /\ ~last.acquire
        /\ ~last.called
        /\ last.sent = "none"
        /\ last.kind # "value"

\* A call on a connected backend with a cached tool was refused for an
\* argument the schema does not know.
C15_Witness ==
    /\ FailsLookupOrValidation
    /\ last.server \in pools
    /\ "z" \in last.keys
    /\ last.code \in {"VALIDATION_ERROR", "500"}

\* C16: whenever an invoke reaches call_tool, the arguments delivered are a
\* map; a null is never forwarded.
C16_NullSentAsEmptyMap ==
    (last.op = "invoke" /\ last.called) => last.sent = "map"


\* ------------------------------------ Part V: the health checker's tasks

MaxLoops == 3

\* The backends the checker is asked about.
Watched == {<<"a">>}

\* The name under which the probes of loop task l are listed.
LoopName(l) == <<"loop", l>>

\* What a check_server call meets: the ping succeeds, the callback returns
\* None, the callback, the client's entry or the ping raises, or the ping
\* times out.
CheckOutcomes == {"ok", "no_client", "raises", "timeout"}

\* The outcome as the coarser model of check_server sees it.
Coarse(outcome) == IF outcome \in {"raises", "timeout"} THEN "failed" ELSE outcome

\* The error text update_server is given.
ErrorOf(outcome) ==
    CASE outcome = "no_client" -> "No client factory"
      [] outcome = "timeout" -> "Timeout after 5s"
      [] outcome = "raises" -> "str(e)"
      [] OTHER -> "none"

\* The error texts after update_server(name, ...): None after a success.
WithError(le, name, text) ==
    [n \in DOMAIN le \cup {name} |-> IF n = name THEN text ELSE le[n]]

\* The error texts once start() has added its unknown records.
WithTrackedErrors(le, names) ==
    [n \in DOMAIN le \cup names |-> IF n \in DOMAIN le THEN le[n] ELSE "none"]

\* check_server without its except clauses: an exception leaves the call and
\* nothing is recorded.
CheckServerUncaught(sv, le, name, outcome) ==
    IF outcome \in {"raises", "timeout"}
    THEN [servers |-> sv, last_error |-> le, result |-> "raised"]
    ELSE [servers |-> CheckServerResult(sv, name, Coarse(outcome)),
          last_error |-> WithError(le, name, ErrorOf(outcome)),
          result |-> IF outcome = "ok" THEN "true" ELSE "false"]

\* check_server(name) meeting outcome: the records and error texts it
\* leaves and what it returns.
CheckServerCall(sv, le, name, outcome) ==
    [servers |-> CheckServerResult(sv, name, Coarse(outcome)),
     last_error |-> WithError(le, name, ErrorOf(outcome)),
     result |-> IF outcome = "ok" THEN "true" ELSE "false"]

\* The probes a caller has in flight.
ProbesBy(by) == {p \in probes : p.by = by}

\* start(names): nothing on a running checker; otherwise the flag is set,
\* unknown records are added, the loop task is created and the initial check
\* of every name begins.
ProbeStart(names) ==
    /\ startPc = "idle"
    /\ IF running
       THEN UNCHANGED <<healthVars, probeVars>>
       ELSE /\ Len(loops) < MaxLoops
            /\ running' = TRUE
            /\ servers' = WithTracked(servers, names)
            /\ last_error' = WithTrackedErrors(last_error, names)
            /\ loops' = Append(loops, "new")
            /\ loop_task' = Len(loops) + 1
            /\ probes' = probes \cup {[by |-> <<"start">>, name |-> n] : n \in names}
            /\ startPc' = IF names = {} THEN "idle" ELSE "checking"
            /\ UNCHANGED <<totals, stopPc, awaited, lastProbe>>

\* start() returns once its initial check has gathered every probe.
StartReturn ==
    /\ startPc = "checking"
    /\ ProbesBy(<<"start">>) = {}
    /\ startPc' = "idle"
    /\ UNCHANGED <<healthVars, loop_task, loops, probes, stopPc, awaited,
                   last_error, lastProbe>>

\* The loop task l at the head of its while loop, when it first runs or when
\* its sleep is over: it ends if the flag is down, otherwise it probes every
\* backend that has a record.
LoopRun(l) ==
    /\ l \in DOMAIN loops
    /\ loops[l] \in {"new", "sleeping"}
    /\ IF ~running
       THEN loops' = [loops EXCEPT ![l] = "done"] /\ UNCHANGED probes
       ELSE IF DOMAIN servers # {}
       THEN /\ loops' = [loops EXCEPT ![l] = "checking"]
            /\ probes' = probes \cup
                   {[by |-> LoopName(l), name |-> n] : n \in DOMAIN servers}
       ELSE loops' = [loops EXCEPT ![l] = "sleeping"] /\ UNCHANGED probes
    /\ UNCHANGED <<healthVars, loop_task, startPc, stopPc, awaited, last_error,
                   lastProbe>>

\* The gather of loop task l is complete: the task goes to sleep.
LoopGathered(l) ==
    /\ l \in DOMAIN loops
    /\ loops[l] = "checking"
    /\ ProbesBy(LoopName(l)) = {}
    /\ loops' = [loops EXCEPT ![l] = "sleeping"]
    /\ UNCHANGED <<healthVars, loop_task, probes, startPc, stopPc, awaited,
                   last_error, lastProbe>>

\* check_server_health(name): a manual check begins.
ManualCheck(name) ==
    /\ [by |-> <<"manual">>, name |-> name] \notin probes
    /\ probes' = probes \cup {[by |-> <<"manual">>, name |-> name]}
    /\ UNCHANGED <<healthVars, loop_task, loops, startPc, stopPc, awaited,
                   last_error, lastProbe>>

\* The probe p belongs to a loop task that is being cancelled.
Cancelled(p) ==
    \E l \in DOMAIN loops : p.by = LoopName(l) /\ loops[l] = "cancelled"

\* The check_server call p returns, having met outcome.
ProbeReturn(p, outcome) ==
    /\ p \in probes
    /\ ~Cancelled(p)
    /\ CanProbe(servers, p.name, Coarse(outcome))
    /\ LET r == CheckServerCall(servers, last_error, p.name, outcome) IN
       /\ servers' = r.servers
       /\ last_error' = r.last_error
       /\ totals' = IF r.result = "raised" THEN totals ELSE Recalculate(r.servers)
       /\ lastProbe' = [name |-> p.name, by |-> p.by, outcome |-> outcome,
                        result |-> r.result]
    /\ probes' = probes \ {p}
    /\ UNCHANGED <<running, loop_task, loops, startPc, stopPc, awaited>>

\* stop(): nothing on a stopped checker; otherwise the flag is lowered and
\* the task self._task refers to is cancelled and awaited.
ProbeStop ==
    /\ stopPc = "idle"
    /\ IF ~running
       THEN UNCHANGED <<healthVars, probeVars>>
       ELSE /\ running' = FALSE
            /\ IF loop_task = 0
               THEN UNCHANGED <<loop_task, loops, stopPc, awaited>>
               ELSE IF loops[loop_task] = "done"
               THEN loop_task' = 0 /\ UNCHANGED <<loops, stopPc, awaited>>
               ELSE /\ loops' = [loops EXCEPT ![loop_task] = "cancelled"]
                    /\ stopPc' = "awaiting"
                    /\ awaited' = loop_task
                    /\ UNCHANGED loop_task
            /\ UNCHANGED <<servers, totals, probes, startPc, last_error, lastProbe>>

\* The cancellation reaches loop task l: its probes are cancelled with it
\* and the task ends.
LoopCancelled(l) ==
    /\ l \in DOMAIN loops
    /\ loops[l] = "cancelled"
    /\ loops' = [loops EXCEPT ![l] = "done"]
    /\ probes' = probes \ ProbesBy(LoopName(l))
    /\ UNCHANGED <<healthVars, loop_task, startPc, stopPc, awaited, last_error,
                   lastProbe>>

\* The awaited task has ended: stop() sets self._task to None and returns.
StopReturn ==
    /\ stopPc = "awaiting"
    /\ loops[awaited] = "done"
    /\ loop_task' = 0
    /\ stopPc' = "idle"
    /\ awaited' = 0
    /\ UNCHANGED <<healthVars, loops, probes, startPc, last_error, lastProbe>>

ProbeOnly == UNCHANGED <<poolVars, mgrVars, invVars, writerVars, pureVars>>

ProbeNext ==
    \/ \E names \in SUBSET Watched : ProbeStart(names) /\ ProbeOnly
    \/ StartReturn /\ ProbeOnly
    \/ \E l \in 1..MaxLoops : LoopRun(l) /\ ProbeOnly
    \/ \E l \in 1..MaxLoops : LoopGathered(l) /\ ProbeOnly
    \/ \E n \in Watched : ManualCheck(n) /\ ProbeOnly
    \/ \E p \in probes, o \in CheckOutcomes : ProbeReturn(p, o) /\ ProbeOnly
    \/ ProbeStop /\ ProbeOnly
    \/ \E l \in 1..MaxLoops : LoopCancelled(l) /\ ProbeOnly
    \/ StopReturn /\ ProbeOnly

ProbeOnlyInit ==
    /\ PoolInit
    /\ HealthInit
    /\ MgrInit
    /\ InvInit
    /\ ProbeInit
    /\ WriterInit
    /\ PureInit
    /\ \A b \in Backends : enabled[b]

SpecProbe == ProbeOnlyInit /\ [][ProbeNext]_vars


\* ---------------------------------------- claims on the checker's tasks

\* A loop task ends in this step.
LoopEnds(l) == loops[l] # "done" /\ loops'[l] = "done"

\* C17: a check_server call that meets a missing client, an exception or a
\* timeout returns false and leaves the backend's record unhealthy with the
\* error text; and a loop task ends only when it is cancelled or finds the
\* running flag down, never because of a probe.
C17_ProbeErrorsRecorded ==
    /\ [](lastProbe.outcome \in {"no_client", "raises", "timeout"} =>
             /\ lastProbe.result = "false"
             /\ lastProbe.name \in DOMAIN servers
             /\ servers[lastProbe.name].status = "unhealthy"
             /\ servers[lastProbe.name].consecutive_failures >= 1
             /\ last_error[lastProbe.name] = ErrorOf(lastProbe.outcome)
             /\ last_error[lastProbe.name] # "none")
    /\ [][\A l \in DOMAIN loops :
             LoopEnds(l) => loops[l] = "cancelled" \/ ~running]_vars

\* A probe of the first loop task met an exception, and the task went on to
\* its sleep on a running checker.
C17_Witness ==
    /\ lastProbe.outcome = "raises"
    /\ lastProbe.by = LoopName(1)
    /\ running
    /\ loops[1] = "sleeping"

\* C18: at most one probe of a backend is in flight at any time.
C18_ProbesNeverOverlap ==
    \A n \in Watched : Cardinality({p \in probes : p.name = n}) <= 1

\* C19: at most one loop task exists at any time, and once stop() has
\* returned and the checker reports not running, every loop task has ended.
C19_OneLoopStoppedOnReturn ==
    /\ Cardinality({l \in DOMAIN loops : loops[l] # "done"}) <= 1
    /\ (stopPc = "idle" /\ ~running) => \A l \in DOMAIN loops : loops[l] = "done"

\* A check_server call returns in this step.
ProbeReturns ==
    /\ probes' # probes
    /\ probes' \subseteq probes
    /\ loops' = loops

\* The failure counter of n, zero while n has no record.
Failures(sv, n) == IF n \in DOMAIN sv THEN sv[n].consecutive_failures ELSE 0

\* C20: a successful probe leaves the failure counter of its record at zero,
\* a failed one raises it by exactly one, and a counter goes down only by a
\* successful probe of its backend.
C20_CounterResetOrIncrement ==
    [][/\ ProbeReturns =>
             (LET n == lastProbe'.name IN
              IF lastProbe'.outcome = "ok"
              THEN Failures(servers', n) = 0
              ELSE Failures(servers', n) = Failures(servers, n) + 1)
        /\ \A n \in DOMAIN servers :
             /\ n \in DOMAIN servers'
             /\ (Failures(servers', n) < Failures(servers, n)) =>
                    (/\ ProbeReturns
                     /\ lastProbe'.name = n
                     /\ lastProbe'.outcome = "ok"
                     /\ Failures(servers', n) = 0)
             /\ (~ProbeReturns) => (Failures(servers', n) = Failures(servers, n))
      ]_vars

\* Two probes of a backend have failed in a row, the second by a timeout.
C20_Witness ==
    /\ lastProbe.outcome = "timeout"
    /\ lastProbe.name \in DOMAIN servers
    /\ servers[lastProbe.name].consecutive_failures = 2


\* --------------------------- Part VI: concurrent callers of the manager

MaxPools == 3

\* How a connection made by a concurrent caller goes.
WriterOutcomes == {"not_entered", "ok"}

\* The pool map with `self._pools[b] = pool`.
Stored(h, b, pool) == [n \in DOMAIN h \cup {b} |-> IF n = b THEN pool ELSE h[n]]

\* The pool map with `self._pools.pop(b)`.
Popped(h, b) == [n \in DOMAIN h \ {b} |-> h[n]]

\* The pool objects the assignment `self._pools[b] = pool` drops while they
\* are still open.
Dropped(h, b) ==
    IF b \in DOMAIN h /\ h[b] \notin closedPools THEN {h[b]} ELSE {}

\* initialize(), were it to start its loop whatever the flag says.
BeginInitializeAnyway(w) ==
    /\ writer[w].pc = "idle"
    /\ writer' = [writer EXCEPT ![w] =
           [IdleWriter EXCEPT !.op = "initialize", !.pc = "loop",
                              !.todo = ConfigOrder]]
    /\ UNCHANGED <<healthVars, mgrVars, handle, created, closedPools, orphaned>>

\* A caller enters ensure_initialized(): on an initialized manager it
\* returns, otherwise initialize() starts its loop over the configuration.
BeginInitialize(w) ==
    /\ writer[w].pc = "idle"
    /\ writer' = [writer EXCEPT ![w] =
           IF initialized
           THEN [IdleWriter EXCEPT !.op = "initialize", !.pc = "done",
                                   !.how = "returned"]
           ELSE [IdleWriter EXCEPT !.op = "initialize", !.pc = "loop",
                                   !.todo = ConfigOrder]]
    /\ UNCHANGED <<healthVars, mgrVars, handle, created, closedPools, orphaned>>

\* initialize() at the head of its loop: it constructs the pool of the next
\* enabled backend and awaits the warm-up, or, past the last backend, sets
\* _initialized and starts the health checker on the backends in the map.
InitializeNext(w) ==
    /\ writer[w].pc = "loop"
    /\ IF writer[w].todo = <<>>
       THEN /\ initialized' = TRUE
            /\ IF pools # {} /\ ~running
               THEN /\ running' = TRUE
                    /\ servers' = WithTracked(servers, pools)
               ELSE UNCHANGED <<running, servers>>
            /\ writer' = [writer EXCEPT ![w].pc = "done", ![w].how = "returned"]
            /\ UNCHANGED <<created, totals>>
       ELSE /\ IF enabled[Head(writer[w].todo)]
               THEN /\ created < MaxPools
                    /\ created' = created + 1
                    /\ writer' = [writer EXCEPT ![w].pc = "warming",
                                                ![w].name = Head(writer[w].todo),
                                                ![w].pool = created + 1,
                                                ![w].todo = Tail(writer[w].todo)]
               ELSE /\ writer' = [writer EXCEPT ![w].todo = Tail(writer[w].todo)]
                    /\ UNCHANGED created
            /\ UNCHANGED <<initialized, healthVars>>
    /\ UNCHANGED <<enabled, pools, tools, resources, server_infos, lastOp,
                   handle, closedPools, orphaned>>

\* A caller enters connect_server(b): it returns if b has a pool or is
\* disabled, otherwise it constructs a pool and awaits the warm-up.
BeginConnect(w, b) ==
    /\ writer[w].pc = "idle"
    /\ IF b \in DOMAIN handle \/ ~enabled[b]
       THEN /\ writer' = [writer EXCEPT ![w] =
                   [IdleWriter EXCEPT !.op = "connect", !.pc = "done",
                                      !.name = b, !.how = "returned"]]
            /\ UNCHANGED created
       ELSE /\ created < MaxPools
            /\ created' = created + 1
            /\ writer' = [writer EXCEPT ![w] =
                   [IdleWriter EXCEPT !.op = "connect", !.pc = "warming",
                                      !.name = b, !.pool = created + 1]]
    /\ UNCHANGED <<healthVars, mgrVars, handle, closedPools, orphaned>>

\* The warm-up of a caller is over with outcome o: the catalog is written
\* and, on success, the pool is stored under the backend's name, whatever
\* the map holds there by now.
StorePool(w, o) ==
    /\ writer[w].pc = "warming"
    /\ LET b == writer[w].name
           st == ConnectAttempt(MgrState, b, o)
       IN
       /\ tools' = st.tools
       /\ resources' = st.resources
       /\ server_infos' = st.server_infos
       /\ pools' = st.pools
       /\ IF Succeeds(o)
          THEN /\ handle' = Stored(handle, b, writer[w].pool)
               /\ orphaned' = orphaned \cup Dropped(handle, b)
          ELSE UNCHANGED <<handle, orphaned>>
       /\ IF writer[w].op = "connect"
          THEN /\ servers' = IF Succeeds(o) THEN AddServer(servers, b) ELSE servers
               /\ totals' = Recalculate(servers')
               /\ writer' = [writer EXCEPT ![w].pc = "done", ![w].how = "returned"]
          ELSE /\ writer' = [writer EXCEPT ![w].pc = "loop"]
               /\ UNCHANGED <<servers, totals>>
    /\ UNCHANGED <<enabled, initialized, lastOp, running, created, closedPools>>

\* A caller enters disconnect_server(b): it returns if b has no pool,
\* otherwise the record is dropped, the pool is popped from the map and its
\* close() is awaited.
BeginDisconnect(w, b) ==
    /\ writer[w].pc = "idle"
    /\ IF b \notin DOMAIN handle
       THEN /\ writer' = [writer EXCEPT ![w] =
                   [IdleWriter EXCEPT !.op = "disconnect", !.pc = "done",
                                      !.name = b, !.how = "returned"]]
            /\ UNCHANGED <<healthVars, pools, handle>>
       ELSE /\ servers' = RemoveServer(servers, b)
            /\ totals' = Recalculate(servers')
            /\ handle' = Popped(handle, b)
            /\ pools' = pools \ {b}
            /\ writer' = [writer EXCEPT ![w] =
                   [IdleWriter EXCEPT !.op = "disconnect", !.pc = "closing",
                                      !.name = b, !.pool = handle[b]]]
            /\ UNCHANGED running
    /\ UNCHANGED <<enabled, tools, resources, server_infos, initialized, lastOp,
                   created, closedPools, orphaned>>

\* The popped pool is closed: the caches of the backend are cleaned.
EndDisconnect(w) ==
    /\ writer[w].pc = "closing"
    /\ closedPools' = closedPools \cup {writer[w].pool}
    /\ tools' = RemovePrefixed(tools, writer[w].name)
    /\ resources' = RemovePrefixed(resources, writer[w].name)
    /\ server_infos' = server_infos \ {writer[w].name}
    /\ writer' = [writer EXCEPT ![w].pc = "done", ![w].how = "returned"]
    /\ UNCHANGED <<healthVars, enabled, pools, initialized, lastOp, handle,
                   created, orphaned>>

\* A caller enters close() or reload(): the health checker is stopped.  A
\* reload keeps the number of pools constructed before it began.
BeginClose(w, op) ==
    /\ writer[w].pc = "idle"
    /\ running' = FALSE
    /\ writer' = [writer EXCEPT ![w] =
           [IdleWriter EXCEPT !.op = op, !.pc = "stopped",
                              !.since = IF op = "reload" THEN created ELSE 0]]
    /\ UNCHANGED <<servers, totals, mgrVars, handle, created, closedPools,
                   orphaned>>

\* The size of the map when the iteration of close() began: the iteration
\* begins with the first item taken.
SizeAtStart(w) ==
    IF writer[w].pc = "stopped" THEN Cardinality(DOMAIN handle) ELSE writer[w].size

\* close() takes the next item of the map: the iterator raises RuntimeError
\* if the map has changed its size since the iteration began; otherwise the
\* next pool is closed, or, past the last one, the map and the caches are
\* cleared and _initialized is lowered.  reload() then goes on to
\* initialize().
CloseNext(w) ==
    /\ writer[w].pc \in {"stopped", "iterating"}
    /\ IF Cardinality(DOMAIN handle) # SizeAtStart(w)
       THEN /\ writer' = [writer EXCEPT ![w].pc = "done", ![w].how = "raised",
                                        ![w].left = DOMAIN handle]
            /\ UNCHANGED <<mgrVars, handle, closedPools>>
       ELSE IF DOMAIN handle \ writer[w].visited # {}
       THEN LET b == CHOOSE n \in DOMAIN handle \ writer[w].visited : TRUE IN
            /\ closedPools' = closedPools \cup {handle[b]}
            /\ writer' = [writer EXCEPT ![w].visited = @ \cup {b},
                                        ![w].pc = "iterating",
                                        ![w].size = SizeAtStart(w)]
            /\ UNCHANGED <<mgrVars, handle>>
       ELSE /\ handle' = << >>
            /\ pools' = {}
            /\ tools' = {}
            /\ resources' = {}
            /\ server_infos' = {}
            /\ initialized' = FALSE
            /\ writer' = [writer EXCEPT ![w] =
                   IF writer[w].op = "reload"
                   THEN [@ EXCEPT !.pc = "loop", !.todo = ConfigOrder]
                   ELSE [@ EXCEPT !.pc = "done", !.how = "returned"]]
            /\ UNCHANGED <<enabled, lastOp, closedPools>>
    /\ UNCHANGED <<healthVars, created, orphaned>>

\* The caller leaves its operation.
Leave(w) ==
    /\ writer[w].pc = "done"
    /\ writer' = [writer EXCEPT ![w] = IdleWriter]
    /\ UNCHANGED <<healthVars, mgrVars, handle, created, closedPools, orphaned>>

WriterOnly == UNCHANGED <<poolVars, invVars, probeVars, pureVars>>

WriterNext ==
    \/ \E w \in Writers : BeginInitialize(w) /\ WriterOnly
    \/ \E w \in Writers : InitializeNext(w) /\ WriterOnly
    \/ \E w \in Writers, b \in Backends : BeginConnect(w, b) /\ WriterOnly
    \/ \E w \in Writers, o \in WriterOutcomes : StorePool(w, o) /\ WriterOnly
    \/ \E w \in Writers, b \in Backends : BeginDisconnect(w, b) /\ WriterOnly
    \/ \E w \in Writers : EndDisconnect(w) /\ WriterOnly
    \/ \E w \in Writers, op \in {"close", "reload"} : BeginClose(w, op) /\ WriterOnly
    \/ \E w \in Writers : CloseNext(w) /\ WriterOnly
    \/ \E w \in Writers : Leave(w) /\ WriterOnly

WriterOnlyInit ==
    /\ PoolInit
    /\ HealthInit
    /\ MgrInit
    /\ InvInit
    /\ ProbeInit
    /\ WriterInit
    /\ PureInit
    /\ \A b \in Backends : enabled[b]

SpecWriters == WriterOnlyInit /\ [][WriterNext]_vars

\* ------------------------------------------ Part VII: pure functions

\* The tool keys and the disabled lists the functions are tried on: a list
\* read from a file may name a key twice.
SomeKeys == {<<"a", ".", "x">>, <<"a", ".", "y">>, <<"b", ".", "x">>}
SomeLists ==
    {<<>>} \cup {<<k>> : k \in SomeKeys}
           \cup {<<k1, k2>> : k1 \in SomeKeys, k2 \in SomeKeys}

\* disable_tool(k) followed by enable_tool(k) on the list D.
DisableEnableInputs ==
    {[fn |-> "disable_enable", D |-> D, k |-> k] : D \in SomeLists, k \in SomeKeys}

DisableThenEnable ==
    /\ arg.fn = "disable_enable"
    /\ ~res.done
    /\ res' = [done |-> TRUE,
               value |-> EnableTool(DisableTool(arg.D, arg.k), arg.k)]
    /\ UNCHANGED arg

\* update_config. The configuration maps backend names to records; the
\* update's mcpServers is a list of (name, data) in the order of the request
\* body, a data without an enabled key takes the field's default (true), and a data
\* that McpServerConfig rejects makes the constructor raise.
ConfigNames == Backends \cup {<<"c">>}
MaxEntries == 2

McpServerConfigOf(data) ==
    [enabled |-> data.enabled # "false", command |-> data.command]

\* The replacement, were it to take the flag of the update.
ReplacedTakingFlag(existing, data) == McpServerConfigOf(data)

\* The record stored for a name that is already configured.
Replaced(existing, data) ==
    [McpServerConfigOf(data) EXCEPT !.enabled = existing.enabled]

\* The loop over new_servers.items(), ended by the first data that raises.
RECURSIVE AddOrUpdate(_, _)
AddOrUpdate(cfg, M) ==
    IF M = <<>> THEN [servers |-> cfg, raised |-> FALSE]
    ELSE LET e == Head(M) IN
         IF ~e.data.valid THEN [servers |-> cfg, raised |-> TRUE]
         ELSE AddOrUpdate(
                  (e.name :> (IF e.name \in DOMAIN cfg
                              THEN Replaced(cfg[e.name], e.data)
                              ELSE McpServerConfigOf(e.data))) @@ cfg,
                  Tail(M))

UpdateConfig(cfg, dt, updates) ==
    LET new_dt == IF "disabled_tools" \in updates.keys
                  THEN updates.disabled_tools ELSE dt
    IN  IF "mcpServers" \notin updates.keys
        THEN [servers |-> cfg, raised |-> FALSE, disabled_tools |-> new_dt]
        ELSE LET M == updates.mcpServers
                 names == {M[i].name : i \in DOMAIN M}
                 kept == [n \in DOMAIN cfg \cap names |-> cfg[n]]
                 done == AddOrUpdate(kept, M)
             IN  [servers |-> done.servers, raised |-> done.raised,
                  disabled_tools |-> new_dt]

ServerData ==
    [enabled : {"true", "false", "absent"}, command : {"new"}, valid : BOOLEAN]
Configs ==
    UNION {[S -> [enabled : BOOLEAN, command : {"old"}]] : S \in SUBSET ConfigNames}
Mappings ==
    {M \in UNION {[1..n -> [name : ConfigNames, data : ServerData]] :
                     n \in 0..MaxEntries} :
        \A i, j \in DOMAIN M : i # j => M[i].name # M[j].name}
Updates ==
    {u \in [keys : SUBSET {"mcpServers", "disabled_tools"},
            mcpServers : Mappings,
            disabled_tools : {<<>>, <<<<"a", ".", "x">>>>}] :
        /\ ("mcpServers" \notin u.keys => u.mcpServers = <<>>)
        /\ ("disabled_tools" \notin u.keys => u.disabled_tools = <<>>)}

UpdateConfigInputs ==
    {[fn |-> "update_config", config |-> c, updates |-> u] :
        c \in Configs, u \in Updates}

ApplyUpdateConfig ==
    /\ arg.fn = "update_config"
    /\ ~res.done
    /\ res' = [done |-> TRUE,
               value |-> UpdateConfig(arg.config, <<>>, arg.updates)]
    /\ UNCHANGED arg

\* Executor.execute. A call_tool ends with a result or raises an exception,
\* of which execute uses only str(e): a text naming a connection problem, a
\* text naming none, or the empty text of an exception made without a message
\* (asyncio.TimeoutError(), anyio.ClosedResourceError()).
CallOutcomes == {"ok", "Connection closed", "boom", ""}

\* _is_connection_error: str(e) contains one of the indicators.
IsConnectionError(text) == text = "Connection closed"

ExecutionResult(success, data, error) ==
    [success |-> success, data |-> data, error |-> error]

\* session: whether the registry holds a session; first, retry: how the two
\* call_tool go; reconnected: what reconnect_server returns; new_session:
\* whether the registry holds a session after it.
Execute(session, first, reconnected, new_session, retry) ==
    IF ~session
    THEN ExecutionResult(FALSE, "null", "No active connection to server")
    ELSE IF first = "ok" THEN ExecutionResult(TRUE, "data", "null")
    ELSE IF ~IsConnectionError(first) THEN ExecutionResult(FALSE, "null", first)
    ELSE IF ~reconnected
    THEN ExecutionResult(FALSE, "null", "Failed to reconnect: Connection closed")
    ELSE IF ~new_session
    THEN ExecutionResult(FALSE, "null", "Reconnected but no session")
    ELSE IF retry = "ok" THEN ExecutionResult(TRUE, "data", "null")
    ELSE ExecutionResult(FALSE, "null", retry)

\* execute, were it to reconnect and retry after any exception.
ExecuteEffortOnAnyError(session, first, reconnected, new_session, retry) ==
    IF ~session THEN [calls |-> 0, reconnects |-> 0]
    ELSE IF first = "ok" THEN [calls |-> 1, reconnects |-> 0]
    ELSE IF reconnected /\ new_session THEN [calls |-> 2, reconnects |-> 1]
    ELSE [calls |-> 1, reconnects |-> 1]

\* How often execute awaits call_tool and reconnect_server on that path.
ExecuteEffort(session, first, reconnected, new_session, retry) ==
    IF ~session THEN [calls |-> 0, reconnects |-> 0]
    ELSE IF first = "ok" THEN [calls |-> 1, reconnects |-> 0]
    ELSE IF ~IsConnectionError(first) THEN [calls |-> 1, reconnects |-> 0]
    ELSE IF reconnected /\ new_session THEN [calls |-> 2, reconnects |-> 1]
    ELSE [calls |-> 1, reconnects |-> 1]

ExecuteInputs ==
    [fn : {"execute"}, session : BOOLEAN, first : CallOutcomes,
     reconnected : BOOLEAN, new_session : BOOLEAN, retry : CallOutcomes]

ApplyExecute ==
    /\ arg.fn = "execute"
    /\ ~res.done
    /\ res' = [done |-> TRUE,
               value |-> Execute(arg.session, arg.first, arg.reconnected,
                                 arg.new_session, arg.retry)
                         @@ ExecuteEffort(arg.session, arg.first,
                                          arg.reconnected, arg.new_session,
                                          arg.retry)]
    /\ UNCHANGED arg

\* _unwrap_json_string. A text is a sequence of characters over a digit, a
\* letter, the double quote and the backslash; a JSON value is a number (its
\* digits) or a string (its characters).
Quote == "\""
Backslash == "\\"
Chars == {"1", "x", Quote, Backslash}
MaxText == 3
MaxString == 2

Num(ds) == [type |-> "num", val |-> ds]
Str(cs) == [type |-> "str", val |-> cs]

SeqsUpTo(S, n) == UNION {[1..k -> S] : k \in 0..n}

\* The JSON text an upstream writes for a value.
RECURSIVE Escape(_)
Escape(cs) ==
    IF cs = <<>> THEN <<>>
    ELSE (IF Head(cs) \in {Quote, Backslash}
          THEN <<Backslash, Head(cs)>> ELSE <<Head(cs)>>) \o Escape(Tail(cs))

Dumps(v) ==
    IF v.type = "num" THEN v.val ELSE <<Quote>> \o Escape(v.val) \o <<Quote>>

\* The body of a JSON string read back: a backslash takes the quote or
\* backslash after it, a bare quote or any other escape is an error.
RECURSIVE Unescape(_)
Unescape(b) ==
    IF b = <<>> THEN [ok |-> TRUE, val |-> <<>>]
    ELSE IF Head(b) = Backslash
    THEN IF Len(b) >= 2 /\ b[2] \in {Quote, Backslash}
         THEN LET r == Unescape(SubSeq(b, 3, Len(b)))
              IN  [ok |-> r.ok, val |-> <<b[2]>> \o r.val]
         ELSE [ok |-> FALSE, val |-> <<>>]
    ELSE IF Head(b) = Quote THEN [ok |-> FALSE, val |-> <<>>]
    ELSE LET r == Unescape(Tail(b))
         IN  [ok |-> r.ok, val |-> <<Head(b)>> \o r.val]

\* json.loads: ok is false where it raises JSONDecodeError.
Loads(t) ==
    IF t = <<>> THEN [ok |-> FALSE, value |-> Str(<<>>)]
    ELSE IF \A i \in DOMAIN t : t[i] = "1" THEN [ok |-> TRUE, value |-> Num(t)]
    ELSE IF Len(t) >= 2 /\ t[1] = Quote /\ t[Len(t)] = Quote
    THEN LET r == Unescape(SubSeq(t, 2, Len(t) - 1))
         IN  [ok |-> r.ok, value |-> Str(r.val)]
    ELSE [ok |-> FALSE, value |-> Str(<<>>)]

\* _unwrap_json_string, were it to stop after the first decoding.
UnwrapJsonStringOnce(text) ==
    IF text = <<>> THEN Str(text)
    ELSE LET parsed == Loads(text) IN
         IF ~parsed.ok THEN Str(text) ELSE parsed.value

UnwrapJsonString(text) ==
    IF text = <<>> THEN Str(text)
    ELSE LET parsed == Loads(text) IN
         IF ~parsed.ok THEN Str(text)
         ELSE IF parsed.value.type = "str"
         THEN LET again == Loads(parsed.value.val) IN
              IF again.ok THEN again.value ELSE parsed.value
         ELSE parsed.value

\* The values an upstream sends, and the texts tried: every short text, and
\* every value encoded once and twice.
Values ==
    {Num(ds) : ds \in SeqsUpTo({"1"}, MaxText) \ {<<>>}}
        \cup {Str(cs) : cs \in SeqsUpTo(Chars, MaxString)}
Texts ==
    SeqsUpTo(Chars, MaxText)
        \cup {Dumps(v) : v \in Values}
        \cup {Dumps(Str(Dumps(v))) : v \in Values}

UnwrapInputs == {[fn |-> "unwrap", text |-> t] : t \in Texts}

ApplyUnwrap ==
    /\ arg.fn = "unwrap"
    /\ ~res.done
    /\ res' = [done |-> TRUE, value |-> UnwrapJsonString(arg.text)]
    /\ UNCHANGED arg

\* _extract_result_data. A content item is a TextContent with its text, an
\* ImageContent, an EmbeddedResource, or an AudioContent, which has no text
\* attribute but a model_dump.
MaxItems == 3
Items ==
    [kind : {"text"}, text : {<<"1">>, <<"x">>}]
        \cup [kind : {"image", "resource", "audio"}, text : {<<>>}]

\* is_multimodal_content: an instance of TextContent, ImageContent or
\* EmbeddedResource.
IsMultimodalContent(item) == item.kind \in {"text", "image", "resource"}

HasText(item) == item.kind = "text"

\* What is extracted: nothing, a decoded value, content objects as they
\* came, a list of texts and dumps, a dump, or the result's data.
Extracted(form, list, value) == [form |-> form, list |-> list, value |-> value]

TextOrDump(item) ==
    IF HasText(item) THEN [form |-> "text", text |-> item.text]
    ELSE [form |-> "dump", text |-> <<>>]

ExtractResultData(result) ==
    LET content_list == result.content IN
    IF result.has_content
    THEN IF content_list = <<>> THEN Extracted("none", <<>>, Str(<<>>))
         ELSE IF Len(content_list) = 1
         THEN LET first_item == content_list[1] IN
              IF HasText(first_item)
              THEN Extracted("value", <<>>, UnwrapJsonString(first_item.text))
              ELSE IF IsMultimodalContent(first_item)
              THEN Extracted("item", <<first_item>>, Str(<<>>))
              ELSE Extracted("dump", <<>>, Str(<<>>))
         ELSE IF \E i \in DOMAIN content_list :
                     IsMultimodalContent(content_list[i])
         THEN Extracted("items", content_list, Str(<<>>))
         ELSE Extracted("texts",
                        [i \in DOMAIN content_list |-> TextOrDump(content_list[i])],
                        Str(<<>>))
    ELSE IF result.data THEN Extracted("data", <<>>, Str(<<>>))
    ELSE Extracted("dump", <<>>, Str(<<>>))

Results ==
    {[has_content |-> TRUE, content |-> c, data |-> FALSE] :
        c \in SeqsUpTo(Items, MaxItems)}
        \cup {[has_content |-> FALSE, content |-> <<>>, data |-> dt] :
                 dt \in BOOLEAN}

ExtractInputs == {[fn |-> "extract", result |-> r] : r \in Results}

ApplyExtract ==
    /\ arg.fn = "extract"
    /\ ~res.done
    /\ res' = [done |-> TRUE, value |-> ExtractResultData(arg.result)]
    /\ UNCHANGED arg

\* ToonCompressor.compress. A value is a content item, a primitive, a dict
\* with some number of keys, or a list; an element of a list is a content
\* item ("text", "image", "resource"), a primitive, or a dict with the key
\* set A or B.
MaxList == 3
Elements == {"text", "image", "resource", "prim", "dictA", "dictB"}
ContentKinds == {"text", "image", "resource"}
Data ==
    [shape : {"item"}, kind : ContentKinds, elems : {<<>>}, keys : {0}]
        \cup [shape : {"prim"}, kind : {"none"}, elems : {<<>>}, keys : {0}]
        \cup [shape : {"dict"}, kind : {"none"}, elems : {<<>>}, keys : 0..MaxList]
        \cup [shape : {"list"}, kind : {"none"},
              elems : SeqsUpTo(Elements, MaxList), keys : {0}]

\* detect_data_type
DetectDataType(data) ==
    IF data.shape = "prim" THEN "primitive"
    ELSE IF data.shape = "list"
    THEN IF data.elems = <<>> THEN "array"
         ELSE IF \/ \A i \in DOMAIN data.elems : data.elems[i] = "dictA"
                 \/ \A i \in DOMAIN data.elems : data.elems[i] = "dictB"
         THEN "array"
         ELSE "mixed"
    ELSE IF data.shape = "dict" THEN "object"
    ELSE "other"

\* The size test of is_compressible on its own.
IsCompressibleBySize(data, min_size) ==
    LET data_type == DetectDataType(data) IN
    \/ data_type = "array" /\ Len(data.elems) >= min_size
    \/ data_type = "object" /\ data.keys >= min_size
    \/ data_type = "mixed" /\ Len(data.elems) >= min_size * 2

\* is_compressible, were it to look at the size only.
IsCompressibleIgnoringContent(data, min_size) ==
    IsCompressibleBySize(data, min_size)

\* is_compressible: a content item and a list holding one are refused before
\* the size is looked at.
IsCompressible(data, min_size) ==
    /\ data.shape # "item"
    /\ ~(/\ data.shape = "list"
          /\ \E i \in DOMAIN data.elems : data.elems[i] \in ContentKinds)
    /\ IsCompressibleBySize(data, min_size)

\* compress: c holds the compressor's enabled flag and min_size, whether the
\* toons package is there and whether toons.dumps returns.
Compress(c, data) ==
    IF /\ c.enabled
       /\ IsCompressible(data, c.min_size)
       /\ c.toon_available
       /\ c.dumps_ok
    THEN [toon |-> TRUE, data |-> data, compressed |-> TRUE]
    ELSE [toon |-> FALSE, data |-> data, compressed |-> FALSE]

Compressors ==
    [enabled : BOOLEAN, min_size : {1, 3}, toon_available : BOOLEAN,
     dumps_ok : BOOLEAN]

CompressInputs ==
    {[fn |-> "compress", c |-> c, data |-> dt] : c \in Compressors, dt \in Data}

ApplyCompress ==
    /\ arg.fn = "compress"
    /\ ~res.done
    /\ res' = [done |-> TRUE, value |-> Compress(arg.c, arg.data)]
    /\ UNCHANGED arg

\* The head of the call tool: the method is split, and one that does not
\* give two parts is answered with the format error before has_server is
\* asked.
MaxMethod == 5
MethodNames == SeqsUpTo({"a", "b", "."}, MaxMethod)

ParseMethod(method) ==
    LET parts == Split(method) IN
    IF Len(parts) # 2
    THEN [error |-> "Invalid method format", server_name |-> <<>>,
          tool_name |-> <<>>, has_server_asked |-> FALSE]
    ELSE [error |-> "none", server_name |-> parts[1], tool_name |-> parts[2],
          has_server_asked |-> TRUE]

ParseInputs == {[fn |-> "parse", method |-> m] : m \in MethodNames}

ApplyParse ==
    /\ arg.fn = "parse"
    /\ ~res.done
    /\ res' = [done |-> TRUE, value |-> ParseMethod(arg.method)]
    /\ UNCHANGED arg

\* connect_server(name) as a function of the manager's maps st, of whether
\* the name is configured and enabled, and of how the attempt goes: "invalid"
\* is a configuration that validate_for_server refuses.
\* The health records are those of the backends in the map; a connection
\* that is stored adds one.
ConnectServerOptimistic(st, b, configured, en, o) ==
    LET sv == [n \in st.pools |-> NewHealth] IN
    IF b \in st.pools \/ ~configured \/ ~en \/ o = "invalid"
    THEN [returns |-> b \in st.pools, st |-> st, servers |-> sv]
    ELSE [returns |-> TRUE, st |-> ConnectAttempt(st, b, o),
          servers |-> IF Succeeds(o) THEN AddServer(sv, b) ELSE sv]

ConnectServerResult(st, b, configured, en, o) ==
    LET sv == [n \in st.pools |-> NewHealth] IN
    IF b \in st.pools THEN [returns |-> TRUE, st |-> st, servers |-> sv]
    ELSE IF ~configured THEN [returns |-> FALSE, st |-> st, servers |-> sv]
    ELSE IF ~en THEN [returns |-> FALSE, st |-> st, servers |-> sv]
    ELSE IF o = "invalid" THEN [returns |-> FALSE, st |-> st, servers |-> sv]
    ELSE [returns |-> Succeeds(o), st |-> ConnectAttempt(st, b, o),
          servers |-> IF Succeeds(o) THEN AddServer(sv, b) ELSE sv]

ConnectInputs ==
    {[fn |-> "connect",
      st |-> [pools |-> P, tools |-> {}, resources |-> {}, server_infos |-> P],
      name |-> b, enabled |-> en, outcome |-> o] :
        P \in SUBSET Backends, b \in RequestServers, en \in BOOLEAN,
        o \in ConnectOutcomes \cup {"invalid"}}

ApplyConnect ==
    /\ arg.fn = "connect"
    /\ ~res.done
    /\ res' = [done |-> TRUE,
               value |-> ConnectServerResult(arg.st, arg.name,
                                             arg.name \in Backends,
                                             arg.enabled, arg.outcome)]
    /\ UNCHANGED arg

\* (end of the functions)

PureOnly == UNCHANGED <<poolVars, healthVars, mgrVars, invVars, probeVars,
                        writerVars>>

PureInputs == DisableEnableInputs \cup UpdateConfigInputs \cup ExecuteInputs
        \cup UnwrapInputs \cup ExtractInputs
        \cup CompressInputs \cup ParseInputs
        \cup ConnectInputs

PureNext ==
    \/ DisableThenEnable /\ PureOnly
    \/ ApplyUpdateConfig /\ PureOnly
    \/ ApplyExecute /\ PureOnly
    \/ ApplyUnwrap /\ PureOnly
    \/ ApplyExtract /\ PureOnly
    \/ ApplyCompress /\ PureOnly
    \/ ApplyParse /\ PureOnly
    \/ ApplyConnect /\ PureOnly

PureOnlyInit ==
    /\ PoolInit
    /\ HealthInit
    /\ MgrInit
    /\ InvInit
    /\ ProbeInit
    /\ WriterInit
    /\ \A b \in Backends : enabled[b]
    /\ arg \in PureInputs
    /\ res = [done |-> FALSE, value |-> <<>>]

SpecPure == PureOnlyInit /\ [][PureNext]_vars

\* ------------------------------------ further claims on the manager

\* C21: a health record exists only for a backend that has a pool.
C21_RecordOnlyIfConnected ==
    DOMAIN servers \subseteq pools


\* C22: concurrent ensure_initialized, connect_server, disconnect_server,
\* reload and close calls never leave a backend with a second pool whose
\* first one was replaced unclosed, and close() never ends with a pool
\* still in the map.
C22_SingleWriter ==
    /\ orphaned = {}
    /\ \A w \in Writers :
           (writer[w].op = "close" /\ writer[w].pc = "done")
               => writer[w].left = {}


\* The status of n, unknown while n has no record.
StatusOf(sv, n) == IF n \in DOMAIN sv THEN sv[n].status ELSE "unknown"

\* C23: a backend's status changes only when one of its probes returns: to
\* healthy on a success, to unhealthy on a failure; it never changes to
\* unknown, and no record is dropped.
C23_StatusMachine ==
    [][\A n \in DOMAIN servers \cup DOMAIN servers' :
          /\ n \in DOMAIN servers'
          /\ (StatusOf(servers', n) # StatusOf(servers, n)) =>
                (/\ ProbeReturns
                 /\ lastProbe'.name = n
                 /\ StatusOf(servers', n) =
                        IF lastProbe'.outcome = "ok" THEN "healthy" ELSE "unhealthy")
      ]_vars

\* A record that has counted a failure is healthy again after a successful
\* probe by the loop, and a further probe of it is in flight: neither
\* status is a dead end.
C23_Witness ==
    /\ lastProbe.outcome = "ok"
    /\ lastProbe.name \in DOMAIN servers
    /\ servers[lastProbe.name].status = "healthy"
    /\ last_error[lastProbe.name] = "none"
    /\ \E p \in probes : p.name = lastProbe.name


\* C28: a caller that enters initialize (or ensure_initialized) while the
\* manager is initialized returns in that step, and the step leaves the
\* handle map, the pools made so far, the catalogs, the flag and the health
\* checker as they were.
C28_InitializeIdempotent ==
    [][\A w \in Writers :
          (/\ initialized
           /\ writer[w].pc = "idle"
           /\ writer'[w].op = "initialize"
           /\ writer'[w].pc # "idle")
              => /\ writer'[w].pc = "done"
                 /\ writer'[w].how = "returned"
                 /\ UNCHANGED <<healthVars, mgrVars, handle, created,
                                closedPools, orphaned>>
      ]_vars

\* A caller has returned from initialize without visiting a backend, on an
\* initialized manager that holds a pool.
C28_Witness ==
    /\ initialized
    /\ DOMAIN handle # {}
    /\ \E w \in Writers :
           /\ writer[w].op = "initialize"
           /\ writer[w].pc = "done"
           /\ writer[w].name = <<>>

\* ------------------------------------------- claims on pure functions

NamesOf(M) == {M[i].name : i \in DOMAIN M}
DataOf(M, n) == M[CHOOSE i \in DOMAIN M : M[i].name = n].data

Updated ==
    /\ arg.fn = "update_config"
    /\ res.done
    /\ "mcpServers" \in arg.updates.keys
    /\ ~res.value.raised

\* C25: after an update with the backend mapping M the configured names are
\* the keys of M, a backend configured before and named in M keeps the
\* enabled flag it had, and a backend new in M takes the flag M gives it.
C25_BulkUpdate ==
    Updated =>
        LET M == arg.updates.mcpServers IN
        /\ DOMAIN res.value.servers = NamesOf(M)
        /\ \A n \in NamesOf(M) :
               IF n \in DOMAIN arg.config
               THEN res.value.servers[n].enabled = arg.config[n].enabled
               ELSE DataOf(M, n).enabled # "absent"
                        => res.value.servers[n].enabled =
                               (DataOf(M, n).enabled = "true")

\* One backend was removed, one replaced by a data with the opposite flag
\* and one added disabled.
C25_Witness ==
    /\ Updated
    /\ LET M == arg.updates.mcpServers IN
       /\ DOMAIN arg.config \ NamesOf(M) # {}
       /\ \E n \in NamesOf(M) \cap DOMAIN arg.config :
              /\ DataOf(M, n).enabled # "absent"
              /\ (DataOf(M, n).enabled = "true") # arg.config[n].enabled
              /\ res.value.servers[n].command = "new"
       /\ \E n \in NamesOf(M) \ DOMAIN arg.config :
              DataOf(M, n).enabled = "false"


\* C27: every result of Executor.execute is well formed: one with success
\* false has null data and a non-empty error text, one with success true has
\* no error.
C27_ResultWellFormed ==
    (arg.fn = "execute" /\ res.done) =>
        IF res.value.success
        THEN res.value.error = "null"
        ELSE /\ res.value.data = "null"
             /\ res.value.error \notin {"null", ""}

\* A text or string that no value is written as, for the lengths within
\* which Values holds every value.
NotJson(t) == \A v \in Values : Dumps(v) # t

\* C29: the text of a single item is extracted as the value the upstream
\* sent: the text of a number yields the number; the text of a string yields
\* the value that string is the text of, and the string itself when it is
\* the text of none; a text that is the text of no value is returned as it
\* is.
C29_UnwrapDecodes ==
    (arg.fn = "unwrap" /\ res.done) =>
        /\ \A v \in Values :
               arg.text = Dumps(v) =>
                   IF v.type = "num" THEN res.value = v
                   ELSE /\ \A u \in Values :
                              v.val = Dumps(u) => res.value = u
                        /\ ((Len(v.val) <= MaxString /\ NotJson(v.val))
                               => res.value = v)
        /\ ((Len(arg.text) <= MaxText /\ NotJson(arg.text))
               => res.value = Str(arg.text))

\* The text of the text of a string with a quote in it was extracted as
\* that string.
C29_Witness ==
    /\ arg.fn = "unwrap"
    /\ res.done
    /\ \E u \in Values :
           /\ u.type = "str"
           /\ Quote \in {u.val[i] : i \in DOMAIN u.val}
           /\ arg.text = Dumps(Str(Dumps(u)))
           /\ res.value = u

\* C30: of a response with several content items, the item list is
\* extracted as it came when an item is an image or an embedded resource,
\* and the list of the items' texts when every item is a text.
C30_SeveralItems ==
    (/\ arg.fn = "extract"
     /\ res.done
     /\ arg.result.has_content
     /\ Len(arg.result.content) > 1) =>
        LET c == arg.result.content IN
        IF \E i \in DOMAIN c : c[i].kind \in {"image", "resource"}
        THEN res.value.form = "items" /\ res.value.list = c
        ELSE (\A i \in DOMAIN c : c[i].kind = "text")
                 => /\ res.value.form = "texts"
                    /\ res.value.list =
                           [i \in DOMAIN c |-> [form |-> "text", text |-> c[i].text]]

\* ------------------------------------------ further claims on requests

\* C26: ServerManager.read ends in one of three ways: for a backend without
\* a pool it raises server-not-found without acquiring a client; for a
\* backend with a pool it returns a non-empty upstream result, and raises
\* resource-not-found for a null or empty result and for every failure of
\* the acquisition or of the upstream call.
C26_ReadOutcomes ==
    (last.op = "read" /\ last.path = "manager") =>
        IF last.server \notin pools
        THEN /\ last.kind = "raised"
             /\ last.code = "SERVER_NOT_FOUND"
             /\ ~last.acquire
             /\ ~last.called
        ELSE /\ last.acquire
             /\ IF last.up = "ok"
                THEN last.kind = "value"
                ELSE last.kind = "raised" /\ last.code = "RESOURCE_NOT_FOUND"

\* A read of a connected backend whose upstream call raised.
C26_Witness ==
    /\ last.op = "read"
    /\ last.path = "manager"
    /\ last.server \in pools
    /\ last.up = "call_failed"
    /\ last.code = "RESOURCE_NOT_FOUND"


\* ------------------------------------------ claims C31 to C40

Multimodal(data) ==
    \/ data.shape = "item" /\ data.kind \in {"image", "resource"}
    \/ /\ data.shape = "list"
       /\ \E i \in DOMAIN data.elems : data.elems[i] \in {"image", "resource"}

\* C31: for an image, an embedded resource or a list holding one, and for
\* every compressor setting, the compression pass returns the value as it
\* is and reports it as not compressed.
C31_MultimodalNotCompressed ==
    (arg.fn = "compress" /\ res.done /\ Multimodal(arg.data)) =>
        res.value = [toon |-> FALSE, data |-> arg.data, compressed |-> FALSE]

\* A list long enough to be compressed, holding an image, went through an
\* enabled compressor that has the package.
C31_Witness ==
    /\ arg.fn = "compress"
    /\ res.done
    /\ arg.data.shape = "list"
    /\ \E i \in DOMAIN arg.data.elems : arg.data.elems[i] = "image"
    /\ IsCompressibleBySize(arg.data, arg.c.min_size)
    /\ arg.c.enabled
    /\ arg.c.toon_available
    /\ arg.c.dumps_ok
    /\ ~res.value.compressed


HasDot(m) == \E i \in DOMAIN m : m[i] = "."

\* C32: a method with a dot is split at its first dot: the backend name has
\* no dot and backend, dot and tool name make up the method, whatever
\* follows the first dot (further dots, nothing) being the tool name; a
\* method without a dot is answered with the format error and no backend is
\* looked up.
C32_SplitAtFirstDot ==
    (arg.fn = "parse" /\ res.done) =>
        IF HasDot(arg.method)
        THEN /\ res.value.error = "none"
             /\ ~HasDot(res.value.server_name)
             /\ arg.method = res.value.server_name \o <<".">> \o res.value.tool_name
        ELSE /\ res.value.error = "Invalid method format"
             /\ ~res.value.has_server_asked

\* "a.b.c" was parsed as backend "a" and tool "b.c".
C32_Witness ==
    /\ arg.fn = "parse"
    /\ res.done
    /\ arg.method = <<"a", ".", "b", ".", "a">>
    /\ res.value.server_name = <<"a">>
    /\ res.value.tool_name = <<"b", ".", "a">>


Closing(w) ==
    /\ writer[w].op \in {"close", "reload"}
    /\ writer[w].pc \in {"stopped", "iterating"}

\* C33: a shutdown goes in this order: no pool is closed by it while the
\* health checker runs, and when it clears the handle map and the catalogs
\* every pool in the map has been closed.
C33_ShutdownOrder ==
    [][\A w \in Writers :
          Closing(w) =>
              /\ (closedPools' # closedPools /\ writer'[w] # writer[w])
                     => ~running
              /\ (handle # << >> /\ handle' = << >> /\ writer'[w] # writer[w])
                     => \A b \in DOMAIN handle : handle[b] \in closedPools
      ]_vars


\* C34: when a reload returns, every backend in the handle map is enabled
\* and its pool is open and was constructed after the reload began.
C34_ReloadReplacesAll ==
    [][\A w \in Writers :
          (/\ writer[w].op = "reload"
           /\ writer[w].pc = "loop"
           /\ writer'[w].pc = "done")
              => \A b \in DOMAIN handle' :
                     /\ enabled[b]
                     /\ handle'[b] \notin closedPools'
                     /\ handle'[b] > writer[w].since
      ]_vars


\* C35: connect_server(name) returns true exactly when name is in the handle
\* map after the call; on a backend already in the map it returns true and
\* changes nothing, and when it returns false the map is as it was.
C35_ConnectReturnsMembership ==
    (arg.fn = "connect" /\ res.done) =>
        /\ res.value.returns = (arg.name \in res.value.st.pools)
        /\ (arg.name \in arg.st.pools
               => res.value.returns /\ res.value.st = arg.st)
        /\ (~res.value.returns => res.value.st.pools = arg.st.pools)

\* An enabled backend whose tool listing failed was not connected, next to
\* a backend that was.
C35_Witness ==
    /\ arg.fn = "connect"
    /\ res.done
    /\ arg.name \in Backends \ arg.st.pools
    /\ arg.st.pools # {}
    /\ arg.enabled
    /\ arg.outcome = "tools_failed"
    /\ ~res.value.returns


\* C36: one execute calls the upstream tool at most twice and reconnects at
\* most once; it reconnects only after a first call that failed with a
\* connection error, and calls a second time only after a reconnect.
C36_OneReconnectOneRetry ==
    (arg.fn = "execute" /\ res.done) =>
        /\ res.value.calls <= 2
        /\ res.value.reconnects <= 1
        /\ (res.value.reconnects = 1
               => arg.session /\ arg.first = "Connection closed")
        /\ (res.value.calls = 2 => res.value.reconnects = 1)

\* A first call failed with a connection error, the reconnect succeeded and
\* the second call failed with a connection error too.
C36_Witness ==
    /\ arg.fn = "execute"
    /\ res.done
    /\ arg.first = "Connection closed"
    /\ arg.retry = "Connection closed"
    /\ res.value.calls = 2
    /\ ~res.value.success


\* C37: a step that disconnects one backend, removing its pool and no other,
\* leaves the tool and resource entries of every other backend in the caches.
C37_DisconnectKeepsOthers ==
    [][\A b \in Backends :
          (initialized /\ initialized' /\ b \in pools /\ pools' = pools \ {b})
              => /\ {e \in tools : e.server_name # b} \subseteq tools'
                 /\ {e \in resources : e.server_name # b} \subseteq resources']_vars


\* Every task is outside the pool's methods: no scope is open, no close runs.
Quiescent == \A t \in Tasks : task[t].pc \in {"idle", "done"}

\* C38: once close() has completed and every acquire scope has been left,
\* every client the pool constructed has been closed and none is queued.
C38_NoLeakAcrossClose ==
    (closed /\ Quiescent)
        => /\ available = <<>>
           /\ \A c \in 1..nclients : c \in closedClients


\* C39: a client is in one group only: none is both queued and in use, and
\* none is queued twice.
C39_OneGroupPerClient ==
    /\ Range(available) \cap in_use = {}
    /\ \A i, j \in DOMAIN available : available[i] = available[j] => i = j


\* A caller has been handed the client another caller released to the queue,
\* while a further client waits in the queue.
C39_Witness ==
    /\ available # <<>>
    /\ \E t, u \in Tasks :
           /\ t # u
           /\ task[t].pc = "entering"
           /\ task[u].pc = "done"
           /\ task[u].how = "ok"
           /\ task[u].op = "acquire"
           /\ task[t].client = task[u].client
           /\ task[t].client \in in_use


\* C40: each total of the summary is the number of tracked records with that
\* status, so the totals add up to the number of tracked backends.
C40_TotalsMatchRecords ==
    /\ totals = Recalculate(servers)
    /\ totals.healthy + totals.unhealthy + totals.unknown
           = Cardinality(DOMAIN servers)

====
